---- MODULE Spec2Model ----
(***************************************************************************)
(* Model of the gpu_monitor persistence / delivery pipeline:               *)
(*   src/src/gpu_monitor/db.py      (Database: the SQLite store)           *)
(*   src/src/gpu_monitor/server.py  (ServerClient, send_aggregated_data,   *)
(*                                   send_pending_data)                    *)
(*   src/src/gpu_monitor/aggregation.py  (aggregate_gpu_data)              *)
(*                                                                         *)
(* The database file is shared by a small set of operating-system          *)
(* processes.  Every process owns one Database object (one sqlite3         *)
(* connection, created in the process's main thread) and calls the public  *)
(* functions one after the other from that thread; send_pending_data       *)
(* starts one extra thread per unsent aggregate.  One SQL statement is one *)
(* atomic step.  Time is counted in days; an aggregation key is the day of *)
(* its window.                                                             *)
(***************************************************************************)
EXTENDS Integers, Sequences, FiniteSets, TLC

VARIABLES
    now,              \* datetime.datetime.now(), in days
    aggregated_data,  \* table aggregated_data: sequence of rows, in id order
    agg_seq,          \* AUTOINCREMENT counter of aggregated_data
    send_attempts,    \* table send_attempts: per aggregation_time, its rows in id order
    posts,            \* requests received by the server, per aggregation key
    call,             \* per thread: the call it is executing and where it is
    collections,      \* table collections: sequence of rows, in id order
    col_seq,          \* AUTOINCREMENT counter of collections
    gpu_window,       \* aggregate_gpu_data: its argument, the collections of a window
    gpu_summary,      \* aggregate_gpu_data: its result
    loaded,           \* get_collections_for_aggregation: its arguments and result
    monitor,          \* main(): where the monitor process is, and its resources
    sweeps,           \* observes how many send_pending_data calls were started
    reported,         \* observes per key how often a sweep got the ceiling failure
    report            \* the reporting commands: the last command and what it read

vars == <<now, aggregated_data, agg_seq, send_attempts, posts, call,
          collections, col_seq, gpu_window, gpu_summary, loaded, monitor,
          sweeps, reported, report>>

\* The observers of the sweeps
audit_vars == <<sweeps, reported>>

\* The variables of the sample store, of the aggregator and of main()
sample_vars == <<collections, col_seq, gpu_window, gpu_summary, loaded, monitor>>

-----------------------------------------------------------------------------
(* Program constants *)

\* ServerClient.__init__: self.max_retries = 10
MaxRetries == 10

\* get_unsent_aggregated_data: timedelta(days=30)
UnsentWindowDays == 30

\* SQL NULL / Python None, in a text column or variable
NULL == "NULL"

\* SQL NULL / Python None, in an integer column or variable
NullInt == -1

\* cleanup_old_data: timedelta(days=30), the retention of collections
RawRetentionDays == 30

\* cleanup_old_data: timedelta(days=365), the retention of aggregated_data
AggRetentionDays == 365

\* The error strings of ServerClient.send_data
ErrMaxRetries == "Maximum retry attempts (10) reached"
ErrNotObject  == "Server response is not a valid JSON object"
ErrNoUid      == "Server response missing required 'uid' field"
ErrMismatch   == "Server response data does not match sent data"
ErrNon200     == "Server returned non-200 status: 500"
ErrTransport  == "Failed to send data: RequestException"

-----------------------------------------------------------------------------
(* Bounds of the model *)

\* The clock at the start
Now0 == 40

\* Rows ever inserted into aggregated_data
MaxRows == 2

\* Requests the server receives over a run
MaxPosts == 2

\* Rows ever inserted into collections
MaxSamples == 2

\* Processes sharing the database file: the monitor and a second process
Procs == {"p1", "p2"}

Monitor == "p1"

\* Aggregation keys: one at the 30-day cutoff of the start, one recent
Keys == {10, 39}

\* Server URLs a caller passes: none, or one
Urls == {"", "http://server"}

\* Acknowledgment ids the server hands out
Uids == {"uid-1"}

\* Attempt histories the database file may already hold for a key when the
\* processes open it: that many failed attempts, numbered 1..n
PriorCounts == {0, MaxRetries - 1, MaxRetries}

\* Threads: <<p, 0>> is the main thread of process p, <<p, i>> with i > 0 the
\* i-th thread started by its send_pending_data
Ctx == Procs \X (0 .. MaxRows)

MainOf(p) == <<p, 0>>

IsMain(e) == e[2] = 0

-----------------------------------------------------------------------------
(* The tables *)

\* A row of send_attempts
AttemptRow(k, ts, success, error, uid, n) ==
    [aggregation_time |-> k, timestamp |-> ts, success |-> success,
     error |-> error, uid |-> uid, attempt_number |-> n]

\* json.dumps(data) of the payload saved under key k: one payload per key
AggregatePayload(k) == <<"gpus", k>>

\* A row of aggregated_data as INSERT leaves it: sent DEFAULT 0, error NULL
AggregateRow(id, k) ==
    [id |-> id, aggregation_time |-> k, data |-> AggregatePayload(k),
     sent |-> 0, error |-> NULL]

\* SELECT * FROM send_attempts WHERE aggregation_time = k
AttemptsOf(k) == send_attempts[k]

\* len(db.get_send_attempts(k))
get_send_attempts_len(k) == Len(AttemptsOf(k))

RECURSIVE SeqMax(_)
\* MAX() over a sequence of numbers, NULL for no rows
SeqMax(s) ==
    IF s = <<>> THEN NullInt
    ELSE LET m == SeqMax(Tail(s)) IN
         IF m = NullInt \/ Head(s) > m THEN Head(s) ELSE m

\* MAX(attempt_number) without the WHERE clause: over the rows of all keys
MaxAttemptAnyKey(k) ==
    SeqMax([i \in 1 .. Cardinality(Keys) |->
        LET kk == CHOOSE x \in Keys : Cardinality({y \in Keys : y < x}) = i - 1
            a == AttemptsOf(kk)
        IN  SeqMax([j \in 1 .. Len(a) |-> a[j].attempt_number])])

\* SELECT MAX(attempt_number) FROM send_attempts WHERE aggregation_time = k
MaxAttempt(k) ==
    LET a == AttemptsOf(k) IN
    SeqMax([i \in 1 .. Len(a) |-> a[i].attempt_number])

\* attempt_number = (row['max_attempt'] or 0) + 1
NextAttemptNumber(max_attempt) ==
    (IF max_attempt = NullInt THEN 0 ELSE max_attempt) + 1

RECURSIVE InsertByKey(_, _)
\* r put into a list sorted by aggregation_time, after the rows of its key
InsertByKey(r, s) ==
    IF s = <<>> THEN <<r>>
    ELSE IF Head(s).aggregation_time <= r.aggregation_time
         THEN <<Head(s)>> \o InsertByKey(r, Tail(s))
         ELSE <<r>> \o s

RECURSIVE OrderByKey(_)
\* ORDER BY aggregation_time ASC, rows of one key in id order
OrderByKey(s) ==
    IF s = <<>> THEN <<>>
    ELSE InsertByKey(s[Len(s)], OrderByKey(SubSeq(s, 1, Len(s) - 1)))

\* The row at the cutoff is selected too
UnsentFilterAtCutoff(r, cutoff_date) == r.sent = 0 /\ r.aggregation_time >= cutoff_date

\* WHERE sent = 0 AND aggregation_time > cutoff_date
UnsentFilter(r, cutoff_date) == r.sent = 0 /\ r.aggregation_time > cutoff_date

\* Database.get_unsent_aggregated_data
get_unsent_aggregated_data ==
    LET cutoff_date == now - UnsentWindowDays
        Keep(r) == UnsentFilter(r, cutoff_date)
    IN  OrderByKey(SelectSeq(aggregated_data, Keep))

\* The UPDATE with WHERE aggregation_time = (the key of the row data_id)
mark_by_key(data_id, success, error) ==
    [i \in 1 .. Len(aggregated_data) |->
        IF \E j \in DOMAIN aggregated_data :
              /\ aggregated_data[j].id = data_id
              /\ aggregated_data[j].aggregation_time = aggregated_data[i].aggregation_time
        THEN IF success
             THEN [aggregated_data[i] EXCEPT !.sent = 1, !.error = NULL]
             ELSE [aggregated_data[i] EXCEPT !.sent = 0, !.error = error]
        ELSE aggregated_data[i]]

\* The UPDATE of the failure branch, whatever the result
mark_always_failed(data_id, success, error) ==
    [i \in 1 .. Len(aggregated_data) |->
        IF aggregated_data[i].id = data_id
        THEN [aggregated_data[i] EXCEPT !.sent = 0, !.error = error]
        ELSE aggregated_data[i]]

\* The UPDATE of the success branch without 'error = NULL'
mark_keeps_error(data_id, success, error) ==
    [i \in 1 .. Len(aggregated_data) |->
        IF aggregated_data[i].id = data_id
        THEN IF success
             THEN [aggregated_data[i] EXCEPT !.sent = 1]
             ELSE [aggregated_data[i] EXCEPT !.sent = 0, !.error = error]
        ELSE aggregated_data[i]]

\* UPDATE aggregated_data SET sent = .., error = .. WHERE id = data_id
mark_aggregated_data_sent(data_id, success, error) ==
    [i \in 1 .. Len(aggregated_data) |->
        IF aggregated_data[i].id = data_id
        THEN IF success
             THEN [aggregated_data[i] EXCEPT !.sent = 1, !.error = NULL]
             ELSE [aggregated_data[i] EXCEPT !.sent = 0, !.error = error]
        ELSE aggregated_data[i]]

-----------------------------------------------------------------------------
(* The server's answers and their classification by send_data *)

\* What session.post returns or raises: a transport error, or a response with
\* a status code and a body; an object body may carry 'uid' and 'params'
\* ("echo": params equals the payload that was posted, which includes the
\* contract_number send_data added; "other": it differs)
Responses ==
    {[exc |-> TRUE, status |-> 0, body |-> "none", uid |-> NULL, params |-> "absent"]}
    \cup {[exc |-> FALSE, status |-> 500, body |-> "none", uid |-> NULL, params |-> "absent"]}
    \cup {[exc |-> FALSE, status |-> 500, body |-> "object", uid |-> u, params |-> "absent"] :
             u \in Uids}
    \cup {[exc |-> FALSE, status |-> 200, body |-> b, uid |-> NULL, params |-> "absent"] :
             b \in {"unparsable", "notobject"}}
    \cup {[exc |-> FALSE, status |-> 200, body |-> "object", uid |-> u, params |-> q] :
             u \in Uids \cup {NULL}, q \in {"absent", "echo", "other"}}

\* requests.exceptions.JSONDecodeError is a RequestException from requests
\* 2.27 on and a plain ValueError before; setup.py allows both
JsonErrorKinds == {"RequestException", "ValueError"}

ErrJson == "Failed to send data: JSONDecodeError"

Outcome(raises, success, error, uid) ==
    [raises |-> raises, success |-> success, error |-> error, uid |-> uid]

\* send_data taking the acknowledgment id from any response that has one,
\* whatever its status
ClassifyUidAnyStatus(r, json_error) ==
    IF r.exc THEN Outcome(NULL, FALSE, ErrTransport, NULL)
    ELSE IF r.status = 200
    THEN IF r.body = "unparsable"
         THEN IF json_error = "RequestException"
              THEN Outcome(NULL, FALSE, ErrJson, NULL)
              ELSE Outcome("ValueError", FALSE, NULL, NULL)
         ELSE IF r.body # "object"
         THEN Outcome(NULL, FALSE, ErrNotObject, NULL)
         ELSE IF r.uid = NULL
         THEN Outcome(NULL, FALSE, ErrNoUid, NULL)
         ELSE IF r.params # "absent" /\ r.params # "echo"
         THEN Outcome(NULL, FALSE, ErrMismatch, r.uid)
         ELSE Outcome(NULL, TRUE, NULL, r.uid)
    ELSE Outcome(NULL, FALSE, ErrNon200, r.uid)

\* send_data recording the integrity mismatch like the other validation
\* failures, with uid None
ClassifyMismatchNoUid(r, json_error) ==
    IF r.exc THEN Outcome(NULL, FALSE, ErrTransport, NULL)
    ELSE IF r.status = 200
    THEN IF r.body = "unparsable"
         THEN IF json_error = "RequestException"
              THEN Outcome(NULL, FALSE, ErrJson, NULL)
              ELSE Outcome("ValueError", FALSE, NULL, NULL)
         ELSE IF r.body # "object"
         THEN Outcome(NULL, FALSE, ErrNotObject, NULL)
         ELSE IF r.uid = NULL
         THEN Outcome(NULL, FALSE, ErrNoUid, NULL)
         ELSE IF r.params # "absent" /\ r.params # "echo"
         THEN Outcome(NULL, FALSE, ErrMismatch, NULL)
         ELSE Outcome(NULL, TRUE, NULL, r.uid)
    ELSE Outcome(NULL, FALSE, ErrNon200, NULL)

\* ServerClient.send_data, from the post to the choice of what to record
Classify(r, json_error) ==
    IF r.exc THEN Outcome(NULL, FALSE, ErrTransport, NULL)
    ELSE IF r.status = 200
    THEN IF r.body = "unparsable"
         THEN IF json_error = "RequestException"
              THEN Outcome(NULL, FALSE, ErrJson, NULL)
              ELSE Outcome("ValueError", FALSE, NULL, NULL)
         ELSE IF r.body # "object"
         THEN Outcome(NULL, FALSE, ErrNotObject, NULL)
         ELSE IF r.uid = NULL
         THEN Outcome(NULL, FALSE, ErrNoUid, NULL)
         ELSE IF r.params # "absent" /\ r.params # "echo"
         THEN Outcome(NULL, FALSE, ErrMismatch, r.uid)
         ELSE Outcome(NULL, TRUE, NULL, r.uid)
    ELSE Outcome(NULL, FALSE, ErrNon200, NULL)

-----------------------------------------------------------------------------
(* Threads and calls *)

\* ServerClient.__init__(url, contract_number, offline=True, verbose=False):
\* the offline flag of a client built with or without the argument
ServerClientOffline(offline_arg) ==
    IF offline_arg = "default" THEN TRUE ELSE offline_arg = "true"

OfflineArgs == {"default", "true", "false"}

\* The clients a caller builds: no URL (the default configuration, or
\* --offline, which also sets the flag), a URL with the flag left out, set or
\* cleared
Clients ==
    {<<"", "false">>, <<"", "true">>, <<"http://server", "default">>,
     <<"http://server", "true">>, <<"http://server", "false">>}

\* A connection opened with check_same_thread=False: usable in any thread
AnyThread(e) == TRUE

\* sqlite3.connect(db_file) keeps check_same_thread on: the connection works
\* only in the thread that created the Database, the process's main thread
ConnUsableIn(e) == IsMain(e)

\* The response of a call that has not posted
NoResponse ==
    [exc |-> FALSE, status |-> 0, body |-> "none", uid |-> NULL, params |-> "absent"]

\* A thread that executes nothing.  posted, wrote, response and launched
\* observe what the call did: the requests it sent, the attempt rows it
\* wrote, the answer it got, the threads it started.
Idle ==
    [kind |-> "idle", pc |-> "idle", key |-> NullInt, id |-> NullInt, url |-> "",
     offline_arg |-> "default", offline |-> TRUE, at_ceiling |-> FALSE,
     timestamp |-> NullInt, max_attempt |-> NullInt,
     success |-> FALSE, error |-> NULL, uid |-> NULL, raised |-> NULL,
     posted |-> 0, wrote |-> 0, response |-> NoResponse, launched |-> 0]

\* A thread entering ServerClient.send_data for key k; kind tells whether it
\* came through send_aggregated_data.  at_ceiling observes whether MaxRetries
\* attempt rows of k exist at the call.
NewSend(kind, k, id, url, offline_arg) ==
    [Idle EXCEPT !.kind = kind, !.pc = "check", !.key = k, !.id = id,
                 !.url = url, !.offline_arg = offline_arg,
                 !.offline = ServerClientOffline(offline_arg),
                 !.at_ceiling = (get_send_attempts_len(k) >= MaxRetries)]

\* send_aggregated_data builds its client as ServerClient(server_url,
\* contract_number, verbose=verbose): without the offline argument
NewSendAggregated(k, id, url) ==
    NewSend("send_aggregated_data", k, id, url, "default")

\* The call has ended: send_data and record_send_attempt with their return,
\* send_aggregated_data after its mark, any of them with an exception
Finished(c) ==
    \/ c.pc \in {"done", "raised"}
    \/ c.pc = "returned" /\ c.kind # "send_aggregated_data"

\* A call of send_data that will reach the network unless the ceiling stops it
Online(c) == c.url # "" /\ ~c.offline

TotalPosts == LET RECURSIVE Sum(_)
                  Sum(S) == IF S = {} THEN 0
                            ELSE LET k == CHOOSE x \in S : TRUE
                                 IN posts[k] + Sum(S \ {k})
              IN Sum(Keys)

\* Calls on their way to the network
Pending == {e \in Ctx : call[e].pc \in {"check", "post"} /\ Online(call[e])}

\* Room for one more request within MaxPosts
PostBudget == TotalPosts + Cardinality(Pending) < MaxPosts

-----------------------------------------------------------------------------
(* Initial state *)

\* get_collections_for_aggregation has not been called
NotLoaded == [ran |-> FALSE, start_time |-> 0, end_time |-> 0, ids |-> <<>>, out |-> <<>>]

\* No reporting command has run
NoReport == [command |-> "none", arg |-> NullInt, out |-> <<>>]

\* main() has not been started
NotStarted ==
    [pc |-> "off", platform |-> "linux", nvml |-> "none", conn |-> "none",
     init_failed |-> FALSE, entered |-> FALSE, interrupted |-> FALSE,
     raised |-> NULL, cycles |-> 0, failures |-> 0]

\* aggregate_gpu_data has not been called
NotRun == [ran |-> FALSE, out |-> <<>>]

\* n failed attempts of key k, numbered 1..n, as n sequential failed
\* deliveries leave them
PriorAttempts(k, n) ==
    [i \in 1 .. n |-> AttemptRow(k, 0, FALSE, ErrNon200, NULL, i)]

\* The database file as the processes find it
InitStore ==
    /\ now = Now0
    /\ aggregated_data = <<>>
    /\ agg_seq = 0
    /\ \E n \in PriorCounts : send_attempts = [k \in Keys |-> PriorAttempts(k, n)]
    /\ posts = [k \in Keys |-> 0]
    /\ call = [e \in Ctx |-> Idle]
    /\ collections = <<>>
    /\ col_seq = 0
    /\ loaded = NotLoaded
    /\ sweeps = 0
    /\ report = NoReport
    /\ reported = [k \in Keys |-> 0]
    /\ monitor = NotStarted

Init ==
    /\ InitStore
    /\ gpu_window = <<>>
    /\ gpu_summary = NotRun

-----------------------------------------------------------------------------
(* The aggregate store *)

\* Database.save_aggregated_data(data, aggregation_time), from the main
\* thread of process p
SaveAggregatedData(p, k) ==
    /\ call[MainOf(p)].pc = "idle"
    /\ agg_seq < MaxRows
    /\ agg_seq' = agg_seq + 1
    /\ aggregated_data' = Append(aggregated_data, AggregateRow(agg_seq + 1, k))
    /\ UNCHANGED <<audit_vars, report, sample_vars, now, send_attempts, posts, call>>

-----------------------------------------------------------------------------
(* The sample store and the retention sweep *)

\* The metrics in the order json.dumps writes them
FieldOrder == <<"memory_used_mb", "sm_utilization_percent">>

\* json.dumps of one reading: its members as a list of name/value pairs
DumpReading(r) ==
    LET Has(f) == f \in DOMAIN r.metrics
        names == SelectSeq(FieldOrder, Has)
    IN  [device_id |-> r.device_id, name |-> r.name,
         items |-> [i \in 1 .. Len(names) |-> <<names[i], r.metrics[names[i]]>>]]

\* json.dumps(data) of a payload {"gpus": [readings]}
JsonDumps(data) ==
    [gpus |-> [i \in 1 .. Len(data.gpus) |-> DumpReading(data.gpus[i])]]

\* json.loads of one reading: an object of its members, the last pair of a
\* name giving its value
LoadReading(t) ==
    [device_id |-> t.device_id, name |-> t.name,
     metrics |-> [f \in {t.items[i][1] : i \in DOMAIN t.items} |->
        LET last == CHOOSE i \in DOMAIN t.items :
                        /\ t.items[i][1] = f
                        /\ \A j \in DOMAIN t.items : t.items[j][1] = f => j <= i
        IN  t.items[last][2]]]

\* json.loads(row['data'])
JsonLoads(text) ==
    [gpus |-> [i \in 1 .. Len(text.gpus) |-> LoadReading(text.gpus[i])]]

\* A row of collections as INSERT leaves it; given observes the payload that
\* was passed to save_collection
CollectionRow(id, ts, data) ==
    [id |-> id, timestamp |-> ts, data |-> JsonDumps(data), sent |-> 0, error |-> NULL,
     given |-> data]

\* The payload of a capture that found no device
EmptyPayload == [gpus |-> <<>>]

\* INSERT INTO collections (timestamp, data) VALUES (?, ?)
InsertCollection(data) ==
    /\ col_seq' = col_seq + 1
    /\ collections' = Append(collections, CollectionRow(col_seq + 1, now, data))

\* Database.save_collection(data), from the main thread of process p: the
\* timestamp is the clock's
SaveCollection(p, data) ==
    /\ call[MainOf(p)].pc = "idle"
    /\ col_seq < MaxSamples
    /\ InsertCollection(data)
    /\ UNCHANGED <<audit_vars, report, gpu_window, gpu_summary, loaded, monitor, now, aggregated_data,
                   agg_seq, send_attempts, posts, call>>

\* The bounds of the interval are left out
BetweenExclusive(t, lo, hi) == lo < t /\ t < hi

\* timestamp BETWEEN ? AND ?: isoformat() texts of one length compare as
\* their instants do
Between(t, lo, hi) == lo <= t /\ t <= hi

\* The orders in which ORDER BY timestamp ASC can give the rows at the places
\* I of collections: the rows of one timestamp come in any order
OrderByTimestamp(I) ==
    {o \in [1 .. Cardinality(I) -> I] :
        /\ \A i \in I : \E j \in DOMAIN o : o[j] = i
        /\ \A j, k \in DOMAIN o :
              j < k => collections[o[j]].timestamp <= collections[o[k]].timestamp}

\* Database.get_collections_for_aggregation(start_time, end_time), from the
\* main thread of process p: one SELECT, then json.loads of every row's data;
\* ids observes which rows were read
GetCollectionsForAggregation(p, start_time, end_time) ==
    LET I == {i \in DOMAIN collections :
                 Between(collections[i].timestamp, start_time, end_time)}
    IN
    /\ call[MainOf(p)].pc = "idle"
    /\ \E o \in OrderByTimestamp(I) :
          loaded' = [ran |-> TRUE, start_time |-> start_time, end_time |-> end_time,
                     ids |-> [j \in DOMAIN o |-> collections[o[j]].id],
                     out |-> [j \in DOMAIN o |-> JsonLoads(collections[o[j]].data)]]
    /\ UNCHANGED <<audit_vars, report, collections, col_seq, gpu_window, gpu_summary, monitor, now,
                   aggregated_data, agg_seq, send_attempts, posts, call>>

\* A row is deleted when its time is at or before the cutoff
AtOrBefore(t, cutoff) == t <= cutoff

\* DELETE ... WHERE timestamp < ? / WHERE aggregation_time < ?
Before(t, cutoff) == t < cutoff

\* The rows DELETE FROM collections WHERE timestamp < cutoff leaves
DeleteCollectionsBefore(s, cutoff) ==
    LET Keep(r) == ~Before(r.timestamp, cutoff) IN SelectSeq(s, Keep)

\* The rows DELETE FROM aggregated_data WHERE aggregation_time < cutoff leaves
DeleteAggregatesBefore(s, cutoff) ==
    LET Keep(r) == ~Before(r.aggregation_time, cutoff) IN SelectSeq(s, Keep)

\* cleanup_old_data without the DELETE on send_attempts
CleanupKeepsAttempts(p) ==
    LET collections_cutoff == now - RawRetentionDays
        aggregated_cutoff == now - AggRetentionDays
    IN
    /\ call[MainOf(p)].pc = "idle"
    /\ collections' = DeleteCollectionsBefore(collections, collections_cutoff)
    /\ aggregated_data' = DeleteAggregatesBefore(aggregated_data, aggregated_cutoff)
    /\ call' = [call EXCEPT ![MainOf(p)] =
          [Idle EXCEPT !.kind = "cleanup_old_data", !.pc = "done"]]
    /\ UNCHANGED <<audit_vars, report, col_seq, gpu_window, gpu_summary, loaded, monitor, now, agg_seq,
                   send_attempts, posts>>

\* Database.cleanup_old_data(), from the main thread of process p: the two
\* cutoffs, then the three DELETEs in one transaction ('with self.conn'),
\* which other connections see all at once at the commit
CleanupOldData(p) ==
    LET collections_cutoff == now - RawRetentionDays
        aggregated_cutoff == now - AggRetentionDays
    IN
    /\ call[MainOf(p)].pc = "idle"
    /\ collections' = DeleteCollectionsBefore(collections, collections_cutoff)
    /\ aggregated_data' = DeleteAggregatesBefore(aggregated_data, aggregated_cutoff)
    /\ send_attempts' = [k \in Keys |->
          IF Before(k, aggregated_cutoff) THEN <<>> ELSE send_attempts[k]]
    /\ call' = [call EXCEPT ![MainOf(p)] =
          [Idle EXCEPT !.kind = "cleanup_old_data", !.pc = "done"]]
    /\ UNCHANGED <<audit_vars, report, col_seq, gpu_window, gpu_summary, loaded, monitor, now, agg_seq, posts>>

\* The instants at which the store is looked at again: the day a sample of
\* the start reaches the raw cutoff and the day after, and the same for every
\* aggregation key and the aggregate cutoff
Instants ==
    {Now0 + RawRetentionDays + d : d \in {0, 1}}
    \cup {k + AggRetentionDays + d : k \in Keys, d \in {0, 1}}

\* datetime.datetime.now() has moved on to t while no call was in progress
Advance(t) ==
    /\ t > now
    /\ \A e \in Ctx : call[e].pc = "idle"
    /\ now' = t
    /\ UNCHANGED <<audit_vars, report, sample_vars, aggregated_data, agg_seq, send_attempts, posts, call>>

-----------------------------------------------------------------------------
(* aggregate_gpu_data *)

\* Collections of one aggregation window
MaxWindow == 2

\* The device ids
Devices == {"GPU-1234", "GPU-5678"}

\* The numeric metrics of a reading
Fields == {"memory_used_mb", "sm_utilization_percent"}

\* The names a device reports
NamesOf(d) ==
    IF d = "GPU-1234" THEN {"RTX 3080", "RTX 3080 Ti"} ELSE {"RTX 3090"}

\* The values a device reports for a metric
ValuesOfField(d, f) ==
    IF d = "GPU-1234"
    THEN IF f = "memory_used_mb" THEN {5120, 6144} ELSE {82}
    ELSE IF f = "memory_used_mb" THEN {75} ELSE {}

\* The numeric entries of a reading: any part of the metrics, each with one
\* of its values
MetricsOf(d) ==
    UNION {[F -> UNION {ValuesOfField(d, f) : f \in F}] : F \in SUBSET Fields}

\* One reading of device d: device_id, name, and its numeric entries
ReadingsOf(d) ==
    {[device_id |-> d, name |-> n, metrics |-> m] :
        n \in NamesOf(d),
        m \in {x \in MetricsOf(d) : \A f \in DOMAIN x : x[f] \in ValuesOfField(d, f)}}

\* One collection: at most one reading per device, in any order
GpuCollections ==
    {<<>>}
    \cup {<<r>> : r \in UNION {ReadingsOf(d) : d \in Devices}}
    \cup UNION {{<<r1, r2>> : r1 \in ReadingsOf(dd[1]), r2 \in ReadingsOf(dd[2])} :
                  dd \in {x \in Devices \X Devices : x[1] # x[2]}}

\* The arguments of aggregate_gpu_data
Windows == UNION {[1 .. n -> GpuCollections] : n \in 0 .. MaxWindow}

RECURSIVE Flatten(_)
\* for collection in collections: for gpu in collection
Flatten(cs) == IF cs = <<>> THEN <<>> ELSE Head(cs) \o Flatten(Tail(cs))

RECURSIVE DeviceOrder(_)
\* The keys of device_data, in the order of their insertion
DeviceOrder(rs) ==
    IF rs = <<>> THEN <<>>
    ELSE LET before == DeviceOrder(SubSeq(rs, 1, Len(rs) - 1))
             d == rs[Len(rs)].device_id
         IN  IF \E i \in DOMAIN before : before[i] = d THEN before
             ELSE Append(before, d)

\* All readings in every group: no grouping by device
GpuListAnyDevice(rs, d) == rs

\* device_data[device_id]
GpuListOf(rs, d) ==
    LET Same(r) == r.device_id = d IN SelectSeq(rs, Same)

\* numeric_keys = [k for k, v in gpu_list[0].items() if isinstance(v, (int, float))]
NumericKeys(gpu_list) == DOMAIN gpu_list[1].metrics

\* gpu.get(key, 0) for every reading of the device
ValuesOrZero(gpu_list, key) ==
    [i \in 1 .. Len(gpu_list) |->
        IF key \in DOMAIN gpu_list[i].metrics THEN gpu_list[i].metrics[key] ELSE 0]

\* values = [gpu[key] for gpu in gpu_list if key in gpu]
ValuesOf(gpu_list, key) ==
    LET Has(g) == key \in DOMAIN g.metrics
        with_key == SelectSeq(gpu_list, Has)
    IN  [i \in 1 .. Len(with_key) |-> with_key[i].metrics[key]]

RECURSIVE SeqSum(_)
SeqSum(s) == IF s = <<>> THEN 0 ELSE Head(s) + SeqSum(Tail(s))

RECURSIVE SeqMin(_)
\* min(values) of a non-empty list
SeqMin(s) ==
    IF Len(s) = 1 THEN Head(s)
    ELSE LET m == SeqMin(Tail(s)) IN IF Head(s) < m THEN Head(s) ELSE m

RECURSIVE GCD(_, _)
GCD(a, b) == IF b = 0 THEN a ELSE GCD(b, a % b)

\* statistics.mean(values): the exact quotient sum / n, as a fraction in
\* lowest terms
Mean(values) ==
    LET total == SeqSum(values)
        n == Len(values)
        g == GCD(total, n)
    IN  <<total \div g, n \div g>>

\* The entry of one device
AggregatedGpu(device_id, gpu_list) ==
    [device_id |-> device_id,
     name |-> gpu_list[Len(gpu_list)].name,
     stats |-> [key \in {k \in NumericKeys(gpu_list) : ValuesOf(gpu_list, k) # <<>>} |->
                  [mean |-> Mean(ValuesOf(gpu_list, key)),
                   min |-> SeqMin(ValuesOf(gpu_list, key)),
                   max |-> SeqMax(ValuesOf(gpu_list, key))]]]

\* The keys of the dict aggregated_gpu: device_id, name, and f"{key}_mean",
\* f"{key}_min", f"{key}_max" for every numeric key with values
EntryKeys(g) ==
    {"device_id", "name"}
    \cup UNION {{key \o "_mean", key \o "_min", key \o "_max"} : key \in DOMAIN g.stats}

\* aggregate_gpu_data grouping by collection: one entry per collection, built
\* from its first reading, also when the collection has none
aggregate_per_collection(cs) ==
    [j \in 1 .. Len(cs) |->
        IF cs[j] = <<>>
        THEN [device_id |-> NULL, name |-> NULL, stats |-> <<>>]
        ELSE AggregatedGpu(cs[j][1].device_id, cs[j])]

\* aggregate_gpu_data(collections)
aggregate_gpu_data(cs) ==
    IF cs = <<>> THEN <<>>
    ELSE LET rs == Flatten(cs)
             order == DeviceOrder(rs)
         IN  [j \in 1 .. Len(order) |-> AggregatedGpu(order[j], GpuListOf(rs, order[j]))]

\* The call aggregate_gpu_data(gpu_window)
AggregateGpuData ==
    /\ ~gpu_summary.ran
    /\ gpu_summary' = [ran |-> TRUE, out |-> aggregate_gpu_data(gpu_window)]
    /\ UNCHANGED <<audit_vars, report, collections, col_seq, gpu_window, loaded, monitor, now,
                   aggregated_data, agg_seq, send_attempts, posts, call>>

-----------------------------------------------------------------------------
(* ServerClient.send_data *)

\* client.send_data(data, k, db) on a client the caller built as
\* ServerClient(url, contract_number[, offline])
CallSendData(p, url, offline_arg, k) ==
    /\ call[MainOf(p)].pc = "idle"
    /\ (url # "" /\ ~ServerClientOffline(offline_arg)) => PostBudget
    /\ call' = [call EXCEPT ![MainOf(p)] = NewSend("send_data", k, NullInt, url, offline_arg)]
    /\ UNCHANGED <<audit_vars, report, sample_vars, now, aggregated_data, agg_seq, send_attempts, posts>>

\* The sweeps counted one by one; more are counted as MaxSweeps
MaxSweeps == 2

\* A client without URL, or with the offline flag, that ignores the URL
FlagOnly(c) == c.offline

\* if not self.url or self.offline
ShortCircuit(c) == c.url = "" \/ c.offline

\* The ceiling is looked at before the offline short-circuit, on a connection
\* that works in every thread
SendDataCheckCeilingFirst(e) ==
    LET c == call[e]
        at_ceiling == get_send_attempts_len(c.key) >= MaxRetries
    IN
    /\ c.pc = "check"
    /\ call' = [call EXCEPT ![e] =
          IF at_ceiling
          THEN [c EXCEPT !.pc = "returned", !.success = FALSE, !.error = ErrMaxRetries]
          ELSE IF ShortCircuit(c)
          THEN [c EXCEPT !.pc = "returned", !.success = TRUE, !.error = NULL]
          ELSE [c EXCEPT !.pc = "post"]]
    /\ reported' =
          IF ~IsMain(e) /\ at_ceiling
          THEN [reported EXCEPT ![c.key] = IF @ < MaxSweeps THEN @ + 1 ELSE @]
          ELSE reported
    /\ UNCHANGED <<sweeps, report, sample_vars, now, aggregated_data, agg_seq, send_attempts, posts>>

\* The offline short-circuit, then db.get_send_attempts and the ceiling;
\* reported counts the ceiling failures that threads of a sweep get
SendDataCheck(e) ==
    LET c == call[e] IN
    /\ c.pc = "check"
    /\ call' = [call EXCEPT ![e] =
          IF ShortCircuit(c)
          THEN [c EXCEPT !.pc = "returned", !.success = TRUE, !.error = NULL]
          ELSE IF ~ConnUsableIn(e)
          THEN [c EXCEPT !.pc = "raised", !.raised = "ProgrammingError"]
          ELSE IF get_send_attempts_len(c.key) >= MaxRetries
          THEN [c EXCEPT !.pc = "returned", !.success = FALSE, !.error = ErrMaxRetries]
          ELSE [c EXCEPT !.pc = "post"]]
    /\ reported' =
          IF /\ ~IsMain(e)
             /\ ~ShortCircuit(c)
             /\ ConnUsableIn(e)
             /\ get_send_attempts_len(c.key) >= MaxRetries
          THEN [reported EXCEPT ![c.key] = IF @ < MaxSweeps THEN @ + 1 ELSE @]
          ELSE reported
    /\ UNCHANGED <<sweeps, report, sample_vars, now, aggregated_data, agg_seq, send_attempts, posts>>

\* session.post and the validation of the response
SendDataPost(e, r, json_error) ==
    LET c == call[e]
        o == Classify(r, json_error)
    IN
    /\ c.pc = "post"
    /\ TotalPosts < MaxPosts
    /\ posts' = [posts EXCEPT ![c.key] = @ + 1]
    /\ call' = [call EXCEPT ![e] =
          IF o.raises # NULL
          THEN [c EXCEPT !.pc = "raised", !.raised = o.raises, !.posted = @ + 1,
                         !.response = r]
          ELSE [c EXCEPT !.pc = "record", !.posted = @ + 1, !.success = o.success,
                         !.error = o.error, !.uid = o.uid, !.response = r]]
    /\ UNCHANGED <<audit_vars, report, sample_vars, now, aggregated_data, agg_seq, send_attempts>>

\* Database.record_send_attempt, first statement: the timestamp is taken and
\* MAX(attempt_number) of the key is read
RecordRead(e) ==
    LET c == call[e] IN
    /\ c.pc = "record"
    /\ call' = [call EXCEPT ![e] =
          IF ~ConnUsableIn(e)
          THEN [c EXCEPT !.pc = "raised", !.raised = "ProgrammingError"]
          ELSE [c EXCEPT !.pc = "insert", !.timestamp = now,
                         !.max_attempt = MaxAttempt(c.key)]]
    /\ UNCHANGED <<audit_vars, report, sample_vars, now, aggregated_data, agg_seq, send_attempts, posts>>

\* The second statement as an UPDATE of the key's latest row when it has one
RecordInsertReplacing(e) ==
    LET c == call[e]
        row == AttemptRow(c.key, c.timestamp, c.success, c.error, c.uid,
                          NextAttemptNumber(c.max_attempt))
        old == send_attempts[c.key]
    IN
    /\ c.pc = "insert"
    /\ send_attempts' = [send_attempts EXCEPT ![c.key] =
          IF old = <<>> THEN <<row>> ELSE [old EXCEPT ![Len(old)] = row]]
    /\ call' = [call EXCEPT ![e] = [c EXCEPT !.pc = "returned", !.wrote = @ + 1]]
    /\ UNCHANGED <<audit_vars, report, sample_vars, now, aggregated_data, agg_seq, posts>>

\* Database.record_send_attempt, second statement: the row is inserted and
\* committed; send_data (or the direct caller) gets control back
RecordInsert(e) ==
    LET c == call[e] IN
    /\ c.pc = "insert"
    /\ send_attempts' = [send_attempts EXCEPT ![c.key] = Append(@,
          AttemptRow(c.key, c.timestamp, c.success, c.error, c.uid,
                     NextAttemptNumber(c.max_attempt)))]
    /\ call' = [call EXCEPT ![e] = [c EXCEPT !.pc = "returned", !.wrote = @ + 1]]
    /\ UNCHANGED <<audit_vars, report, sample_vars, now, aggregated_data, agg_seq, posts>>

-----------------------------------------------------------------------------
(* send_aggregated_data *)

\* send_aggregated_data(data, k, url, db, verbose) called directly; data is
\* a row of the store (it has an 'id') or a payload without 'id'
CallSendAggregatedData(p, k, id, url) ==
    /\ call[MainOf(p)].pc = "idle"
    /\ \/ id = NullInt
       \/ \E i \in 1 .. Len(aggregated_data) :
             aggregated_data[i].id = id /\ aggregated_data[i].aggregation_time = k
    /\ (url # "" /\ ~ServerClientOffline("default")) => PostBudget
    /\ call' = [call EXCEPT ![MainOf(p)] = NewSendAggregated(k, id, url)]
    /\ UNCHANGED <<audit_vars, report, sample_vars, now, aggregated_data, agg_seq, send_attempts, posts>>

\* After client.send_data returned (success, error): if 'id' in data, the
\* aggregate is marked sent or failed; the call returns success
SendAggregatedMark(e) ==
    LET c == call[e] IN
    /\ c.kind = "send_aggregated_data"
    /\ c.pc = "returned"
    /\ IF c.id = NullInt
       THEN /\ call' = [call EXCEPT ![e] = [c EXCEPT !.pc = "done"]]
            /\ UNCHANGED aggregated_data
       ELSE IF ~ConnUsableIn(e)
       THEN /\ call' = [call EXCEPT ![e] =
                  [c EXCEPT !.pc = "raised", !.raised = "ProgrammingError"]]
            /\ UNCHANGED aggregated_data
       ELSE /\ call' = [call EXCEPT ![e] = [c EXCEPT !.pc = "done"]]
            /\ aggregated_data' = mark_aggregated_data_sent(c.id, c.success, c.error)
    /\ UNCHANGED <<audit_vars, report, sample_vars, now, agg_seq, send_attempts, posts>>

-----------------------------------------------------------------------------
(* send_pending_data *)

\* The loop handing every thread the variable of the loop instead of its
\* value: all threads work on the last aggregate
CallSendPendingDataLastRow(p, url) ==
    LET unsent_data == get_unsent_aggregated_data IN
    /\ call[MainOf(p)].pc = "idle"
    /\ call' = [e \in Ctx |->
          IF e = MainOf(p)
          THEN [Idle EXCEPT !.kind = "send_pending_data", !.pc = "join", !.url = url,
                            !.launched = Len(unsent_data)]
          ELSE IF e[1] = p /\ e[2] <= Len(unsent_data)
          THEN NewSendAggregated(unsent_data[Len(unsent_data)].aggregation_time,
                                 unsent_data[Len(unsent_data)].id, url)
          ELSE call[e]]
    /\ sweeps' = IF sweeps < MaxSweeps THEN sweeps + 1 ELSE sweeps
    /\ UNCHANGED <<reported, report, sample_vars, now, aggregated_data, agg_seq, send_attempts, posts>>

\* send_pending_data(db, url, verbose): the unsent aggregates are read once
\* and one thread per aggregate is started on send_aggregated_data
CallSendPendingData(p, url) ==
    LET unsent_data == get_unsent_aggregated_data IN
    /\ call[MainOf(p)].pc = "idle"
    /\ call' = [e \in Ctx |->
          IF e = MainOf(p)
          THEN [Idle EXCEPT !.kind = "send_pending_data", !.pc = "join", !.url = url,
                            !.launched = Len(unsent_data)]
          ELSE IF e[1] = p /\ e[2] <= Len(unsent_data)
          THEN NewSendAggregated(unsent_data[e[2]].aggregation_time,
                                 unsent_data[e[2]].id, url)
          ELSE call[e]]
    /\ sweeps' = IF sweeps < MaxSweeps THEN sweeps + 1 ELSE sweeps
    /\ UNCHANGED <<reported, report, sample_vars, now, aggregated_data, agg_seq, send_attempts, posts>>

\* The threads process p started
ThreadsOf(p) == {e \in Ctx : e[1] = p /\ ~IsMain(e) /\ call[e].pc # "idle"}

\* send_pending_data returning without joining its threads
SendPendingNoJoin(p) ==
    /\ call[MainOf(p)].pc = "join"
    /\ call' = [call EXCEPT ![MainOf(p)] = [@ EXCEPT !.pc = "done"]]
    /\ UNCHANGED <<audit_vars, report, sample_vars, now, aggregated_data, agg_seq, send_attempts, posts>>

\* thread.join() for every thread: the call returns when all have ended
SendPendingJoin(p) ==
    /\ call[MainOf(p)].pc = "join"
    /\ \A e \in ThreadsOf(p) : Finished(call[e])
    /\ call' = [call EXCEPT ![MainOf(p)] = [@ EXCEPT !.pc = "done"]]
    /\ UNCHANGED <<audit_vars, report, sample_vars, now, aggregated_data, agg_seq, send_attempts, posts>>

-----------------------------------------------------------------------------
(* The caller *)

\* The caller takes the result (or the exception) of its call and goes on
Return(p) ==
    /\ Finished(call[MainOf(p)])
    /\ call' = [e \in Ctx |-> IF e[1] = p THEN Idle ELSE call[e]]
    /\ UNCHANGED <<audit_vars, report, sample_vars, now, aggregated_data, agg_seq, send_attempts, posts>>

\* Process p stops in the middle of a call, between two storage operations,
\* and is started again: its threads are gone, the database file stays
Crash(p) ==
    /\ call[MainOf(p)].pc # "idle"
    /\ ~Finished(call[MainOf(p)])
    /\ call' = [e \in Ctx |-> IF e[1] = p THEN Idle ELSE call[e]]
    /\ UNCHANGED <<audit_vars, report, sample_vars, now, aggregated_data, agg_seq, send_attempts, posts>>

-----------------------------------------------------------------------------
(* Database.record_send_attempt called directly *)

\* The arguments of the calls in TestDatabase.test_send_attempts
RecordArgs ==
    {[success |-> TRUE, error |-> NULL, uid |-> "uid-1"],
     [success |-> FALSE, error |-> "Test error", uid |-> NULL]}

\* Rows a run of direct calls adds per key
MaxRecords == 3

\* db.record_send_attempt(k, success, error, uid, params)
CallRecordSendAttempt(p, k, a) ==
    /\ call[MainOf(p)].pc = "idle"
    /\ Len(send_attempts[k]) < MaxRecords
    /\ call' = [call EXCEPT ![MainOf(p)] =
          [Idle EXCEPT !.kind = "record_send_attempt", !.pc = "record", !.key = k,
                       !.success = a.success, !.error = a.error, !.uid = a.uid]]
    /\ UNCHANGED <<audit_vars, report, sample_vars, now, aggregated_data, agg_seq, send_attempts, posts>>

\* No call is in progress in any process
AllIdle == \A p \in Procs : call[MainOf(p)].pc = "idle"

-----------------------------------------------------------------------------
(* main(): the collection loop and the shutdown sequence *)

\* Cycles of the collection loop
MaxCycles == 2

\* sys.platform
Platforms == {"linux", "darwin"}

\* What a capture or a sample write raises when it fails
LoopErrors == {"NVMLError", "sqlite3.Error"}

\* The places of main() inside 'while True'
LoopPcs == {"collect", "save", "handler", "sleep"}

\* The handler of the loop catches the telemetry errors only
CaughtNvmlOnly(exc) == exc = "NVMLError"

\* 'except Exception' inside the loop: every error but KeyboardInterrupt
CaughtInLoop(exc) == exc # "KeyboardInterrupt"

\* The monitor's resources are left alone
MonitorOnly ==
    UNCHANGED <<audit_vars, report, collections, col_seq, gpu_window, gpu_summary, loaded, now,
                aggregated_data, agg_seq, send_attempts, posts, call>>

\* main() in collection mode: Database(...) opens the connection
StartMain(platform) ==
    /\ monitor.pc = "off"
    /\ monitor' = [monitor EXCEPT !.pc = "init_nvml", !.platform = platform,
                                  !.conn = "open"]
    /\ MonitorOnly

\* initialize_nvml(): nothing on darwin; nvmlInit(), whose error is raised
\* again; main() logs it and returns without entering the loop
InitializeNvml(ok) ==
    /\ monitor.pc = "init_nvml"
    /\ monitor' =
          IF monitor.platform = "darwin"
          THEN [monitor EXCEPT !.pc = "collect", !.entered = TRUE, !.cycles = 1]
          ELSE IF ok
          THEN [monitor EXCEPT !.pc = "collect", !.nvml = "initialized",
                               !.entered = TRUE, !.cycles = 1]
          ELSE [monitor EXCEPT !.pc = "unwound", !.init_failed = TRUE]
    /\ MonitorOnly

\* An error exc raised inside the inner try: to the handler if it is caught
\* there, out of the loop to the finally clause if not
RaisedInLoop(exc) ==
    IF CaughtInLoop(exc)
    THEN [monitor EXCEPT !.pc = "handler", !.failures = @ + 1]
    ELSE [monitor EXCEPT !.pc = "shutdown_nvml", !.raised = exc]

\* get_gpu_info(): it raises NVMLError when a query fails, which every
\* query does when NVML was not initialized
GetGpuInfo(ok) ==
    /\ monitor.pc = "collect"
    /\ monitor' =
          IF ok /\ monitor.nvml = "initialized"
          THEN [monitor EXCEPT !.pc = "save"]
          ELSE RaisedInLoop("NVMLError")
    /\ MonitorOnly

\* db.save_collection(gpu_info) in the loop, and the log line after it
SaveInLoop(data, ok) ==
    /\ monitor.pc = "save"
    /\ IF ok
       THEN /\ InsertCollection(data)
            /\ monitor' = [monitor EXCEPT !.pc = "sleep"]
       ELSE /\ monitor' = RaisedInLoop("sqlite3.Error")
            /\ UNCHANGED <<collections, col_seq>>
    /\ UNCHANGED <<audit_vars, report, gpu_window, gpu_summary, loaded, now, aggregated_data, agg_seq,
                   send_attempts, posts, call>>

\* except Exception as e: log_message("Failed to collect GPU metrics ...")
LogFailure ==
    /\ monitor.pc = "handler"
    /\ monitor' = [monitor EXCEPT !.pc = "sleep"]
    /\ MonitorOnly

\* time.sleep(interval) returns and the next cycle starts; the day may have
\* changed meanwhile
Sleep(t) ==
    /\ monitor.pc = "sleep"
    /\ monitor.cycles < MaxCycles
    /\ monitor' = [monitor EXCEPT !.pc = "collect", !.cycles = @ + 1]
    /\ now' = t
    /\ UNCHANGED <<audit_vars, report, collections, col_seq, gpu_window, gpu_summary, loaded,
                   aggregated_data, agg_seq, send_attempts, posts, call>>

\* KeyboardInterrupt raised in the loop: no handler of the inner try takes
\* it, 'except KeyboardInterrupt' does
Interrupt ==
    /\ monitor.pc \in LoopPcs
    /\ monitor' = [monitor EXCEPT !.pc = "interrupted", !.interrupted = TRUE]
    /\ MonitorOnly

\* log_message("Shutting down..."), then the finally clause
LogShuttingDown ==
    /\ monitor.pc = "interrupted"
    /\ monitor' = [monitor EXCEPT !.pc = "shutdown_nvml"]
    /\ MonitorOnly

\* A second KeyboardInterrupt: raised in the except clause it leaves the
\* finally clause to run, raised in the finally clause it ends it there
InterruptAgain ==
    /\ monitor.pc \in {"interrupted", "shutdown_nvml", "close", "complete"}
    /\ monitor' =
          IF monitor.pc = "interrupted"
          THEN [monitor EXCEPT !.pc = "shutdown_nvml", !.raised = "KeyboardInterrupt"]
          ELSE [monitor EXCEPT !.pc = "unwound", !.raised = "KeyboardInterrupt"]
    /\ MonitorOnly

\* shutdown_nvml(): nothing on darwin; nvmlShutdown(), whose error is logged
\* and raised again, out of the finally clause
ShutdownNvml(ok) ==
    /\ monitor.pc = "shutdown_nvml"
    /\ monitor' =
          IF monitor.platform = "darwin"
          THEN [monitor EXCEPT !.pc = "close"]
          ELSE IF ok
          THEN [monitor EXCEPT !.pc = "close", !.nvml = "released"]
          ELSE [monitor EXCEPT !.pc = "unwound", !.raised = "NVMLError"]
    /\ MonitorOnly

\* db.close()
CloseDb ==
    /\ monitor.pc = "close"
    /\ monitor' = [monitor EXCEPT !.pc = "complete", !.conn = "closed"]
    /\ MonitorOnly

\* log_message("Shutdown complete"), the end of main()
LogComplete ==
    /\ monitor.pc = "complete"
    /\ monitor' = [monitor EXCEPT !.pc = "unwound"]
    /\ MonitorOnly

\* The process exits after main() returned or raised: Database.__del__ closes
\* a connection left open if the interpreter still runs it, which it does not
\* have to
ProcessExit(del_runs) ==
    /\ monitor.pc = "unwound"
    /\ monitor' = [monitor EXCEPT !.pc = "exited",
          !.conn = IF del_runs /\ @ = "open" THEN "closed" ELSE @]
    /\ MonitorOnly

-----------------------------------------------------------------------------
(* The reporting commands of main(): --list-sends, --search-send,
   --show-collection *)

\* The texts of the error and uid columns in the order SQLite's MAX() and
\* ORDER BY compare them (BINARY collation: byte by byte)
TextOrder ==
    <<ErrJson, ErrTransport, ErrMaxRetries, ErrMismatch, ErrNotObject, ErrNoUid, ErrNon200,
      "Test error", "uid-1">>

TextRank(t) == CHOOSE i \in DOMAIN TextOrder : TextOrder[i] = t

RECURSIVE MaxText(_)
\* MAX() over a text column: NULLs are skipped, NULL for no value
MaxText(s) ==
    IF s = <<>> THEN NULL
    ELSE LET m == MaxText(Tail(s)) IN
         IF Head(s) = NULL THEN m
         ELSE IF m = NULL \/ TextRank(Head(s)) > TextRank(m) THEN Head(s) ELSE m

\* The row of the GROUP BY aggregation_time for key k, which has attempts
SendSummary(k) ==
    LET a == send_attempts[k]
        IsFailure(r) == ~r.success
        IsSuccess(r) == r.success
        failures == SelectSeq(a, IsFailure)
        successes == SelectSeq(a, IsSuccess)
        times == [i \in DOMAIN a |-> a[i].timestamp]
    IN  [aggregation_time |-> k,
         attempts |-> Len(a),
         first_attempt |-> SeqMin(times),
         last_attempt |-> SeqMax(times),
         last_error |-> MaxText([i \in DOMAIN failures |-> failures[i].error]),
         uid |-> MaxText([i \in DOMAIN successes |-> successes[i].uid]),
         sent |-> IF successes # <<>> THEN 1 ELSE 0]

RECURSIVE KeysDescending(_)
\* ORDER BY aggregation_time DESC over the keys K
KeysDescending(K) ==
    IF K = {} THEN <<>>
    ELSE LET k == CHOOSE x \in K : \A y \in K : y <= x
         IN  <<k>> \o KeysDescending(K \ {k})

\* Database.get_all_sends()
get_all_sends ==
    LET order == KeysDescending({k \in Keys : send_attempts[k] # <<>>})
    IN  [i \in DOMAIN order |-> SendSummary(order[i])]

\* Database.get_send_by_time(k): the summary, or None (no element)
get_send_by_time(k) ==
    IF send_attempts[k] = <<>> THEN <<>> ELSE <<SendSummary(k)>>

\* What get_collection_by_time makes of a row: {'timestamp': ..., **data}
ShownCollection(r) == [timestamp |-> r.timestamp, gpus |-> JsonLoads(r.data).gpus]

\* Database.get_collection_by_time(timestamp): the rows of that timestamp;
\* for None the rows of the current hour or, if there is none, the row with
\* the latest timestamp.  The payloads hold 'gpus' as a list, not as the
\* dictionary of the old format.
get_collection_by_time(timestamp) ==
    LET At(r) == r.timestamp = (IF timestamp = NullInt THEN now ELSE timestamp)
        rows == SelectSeq(collections, At)
        latest == CHOOSE i \in DOMAIN collections :
                      \A j \in DOMAIN collections :
                          \/ collections[j].timestamp < collections[i].timestamp
                          \/ collections[j].timestamp = collections[i].timestamp /\ i <= j
    IN  IF timestamp = NullInt /\ rows = <<>> /\ collections # <<>>
        THEN <<ShownCollection(collections[latest])>>
        ELSE [i \in DOMAIN rows |-> ShownCollection(rows[i])]

\* A run of main() that opened the database and returned
Returned == [NotStarted EXCEPT !.pc = "unwound", !.conn = "open"]

\* A run of main() with a reporting command starts when no other run is on
NoRun == monitor.pc \in {"off", "exited"}

\* The tables, the clock, the calls and the observers stay as they are
ReportOnly ==
    UNCHANGED <<audit_vars, collections, col_seq, gpu_window, gpu_summary, loaded, now,
                aggregated_data, agg_seq, send_attempts, posts, call>>

\* main() with --list-sends: db.get_all_sends(), printed; return
ListSends ==
    /\ NoRun
    /\ report' = [command |-> "list_sends", arg |-> NullInt, out |-> get_all_sends]
    /\ monitor' = Returned
    /\ ReportOnly

\* --search-send without its return: main() goes on into collection mode
SearchSendFallsThrough(k) ==
    /\ NoRun
    /\ report' = [command |-> "search_send", arg |-> k, out |-> get_send_by_time(k)]
    /\ monitor' = [NotStarted EXCEPT !.pc = "init_nvml", !.conn = "open"]
    /\ ReportOnly

\* main() with --search-send k: db.get_send_by_time(k), printed; return
SearchSend(k) ==
    /\ NoRun
    /\ report' = [command |-> "search_send", arg |-> k, out |-> get_send_by_time(k)]
    /\ monitor' = Returned
    /\ ReportOnly

\* main() with --show-collection [timestamp]: db.get_collection_by_time,
\* printed; return
ShowCollection(timestamp) ==
    /\ NoRun
    /\ report' = [command |-> "show_collection", arg |-> timestamp,
                  out |-> get_collection_by_time(timestamp)]
    /\ monitor' = Returned
    /\ ReportOnly

-----------------------------------------------------------------------------
(* Database.mark_aggregated_data_sent called directly *)

\* The arguments of the calls in TestDatabase.test_mark_aggregated_data_sent
MarkArgs ==
    {[success |-> TRUE, error |-> NULL], [success |-> FALSE, error |-> "Test error"]}

\* The UPDATE applied to the row data_id of the collections table as well
CallMarkBothTables(p, data_id, a) ==
    /\ call[MainOf(p)].pc = "idle"
    /\ aggregated_data' = mark_aggregated_data_sent(data_id, a.success, a.error)
    /\ collections' = [i \in 1 .. Len(collections) |->
          IF collections[i].id = data_id
          THEN [collections[i] EXCEPT !.sent = IF a.success THEN 1 ELSE 0,
                                      !.error = a.error]
          ELSE collections[i]]
    /\ call' = [call EXCEPT ![MainOf(p)] =
          [Idle EXCEPT !.kind = "mark_aggregated_data_sent", !.pc = "done",
                       !.id = data_id, !.success = a.success, !.error = a.error]]
    /\ UNCHANGED <<audit_vars, report, col_seq, gpu_window, gpu_summary, loaded, monitor,
                   now, agg_seq, send_attempts, posts>>

\* db.mark_aggregated_data_sent(data_id, success, error) from the main thread
\* of process p: one UPDATE, committed
CallMarkAggregatedDataSent(p, data_id, a) ==
    /\ call[MainOf(p)].pc = "idle"
    /\ aggregated_data' = mark_aggregated_data_sent(data_id, a.success, a.error)
    /\ call' = [call EXCEPT ![MainOf(p)] =
          [Idle EXCEPT !.kind = "mark_aggregated_data_sent", !.pc = "done",
                       !.id = data_id, !.success = a.success, !.error = a.error]]
    /\ UNCHANGED <<audit_vars, report, sample_vars, now, agg_seq, send_attempts, posts>>

-----------------------------------------------------------------------------
(* The specifications *)

\* The servers' answers in the runs with several deliveries: a failure
\* status, an acknowledgment that echoes the payload, a body that is no JSON
DeliveryResponses ==
    {r \in Responses :
        \/ r.status = 500 /\ r.body = "none"
        \/ r.body = "unparsable"
        \/ r.uid # NULL /\ r.params = "echo"}

\* One monitor process that uses the whole interface; its send_pending_data
\* runs its threads side by side
Next ==
    \/ \E k \in Keys : SaveAggregatedData(Monitor, k)
    \/ \E cl \in Clients, k \in Keys : CallSendData(Monitor, cl[1], cl[2], k)
    \/ \E k \in Keys, id \in {NullInt} \cup (1 .. MaxRows), url \in Urls :
          CallSendAggregatedData(Monitor, k, id, url)
    \/ \E url \in Urls : CallSendPendingData(Monitor, url)
    \/ \E e \in Ctx : SendDataCheck(e)
    \/ \E e \in Ctx, r \in DeliveryResponses, j \in JsonErrorKinds : SendDataPost(e, r, j)
    \/ \E e \in Ctx : RecordRead(e)
    \/ \E e \in Ctx : RecordInsert(e)
    \/ \E e \in Ctx : SendAggregatedMark(e)
    \/ SendPendingJoin(Monitor)
    \/ Return(Monitor)
    \/ Crash(Monitor)

Spec == Init /\ [][Next]_vars

\* Two processes that deliver through their own clients at the same time
NextRace ==
    \/ \E p \in Procs, cl \in Clients, k \in Keys : CallSendData(p, cl[1], cl[2], k)
    \/ \E e \in Ctx : SendDataCheck(e)
    \/ \E e \in Ctx, r \in DeliveryResponses, j \in JsonErrorKinds : SendDataPost(e, r, j)
    \/ \E e \in Ctx : RecordRead(e)
    \/ \E e \in Ctx : RecordInsert(e)
    \/ \E p \in Procs : Return(p)
    \/ \E p \in Procs : Crash(p)

SpecRace == Init /\ [][NextRace]_vars

\* A new database file
InitEmpty == Init /\ \A k \in Keys : send_attempts[k] = <<>>

\* Calls of record_send_attempt one after the other: a call starts when no
\* other is in progress
NextSeq ==
    \/ \E p \in Procs, k \in Keys, a \in RecordArgs :
          AllIdle /\ CallRecordSendAttempt(p, k, a)
    \/ \E e \in Ctx : RecordRead(e)
    \/ \E e \in Ctx : RecordInsert(e)
    \/ \E p \in Procs : Return(p)

SpecSeq == InitEmpty /\ [][NextSeq]_vars

\* One caller that delivers through clients it builds, one call after the
\* other; the server answers anything
NextDeliver ==
    \/ \E cl \in Clients, k \in Keys : CallSendData(Monitor, cl[1], cl[2], k)
    \/ SendDataCheck(MainOf(Monitor))
    \/ \E r \in Responses, j \in JsonErrorKinds : SendDataPost(MainOf(Monitor), r, j)
    \/ RecordRead(MainOf(Monitor))
    \/ RecordInsert(MainOf(Monitor))
    \/ Return(Monitor)

SpecDeliver == Init /\ [][NextDeliver]_vars

\* The monitor storing aggregates and sweeping them with send_pending_data,
\* never interrupted.  Every started thread and the joining main thread keep
\* being scheduled.
NextSweep ==
    \/ \E k \in Keys : SaveAggregatedData(Monitor, k)
    \/ \E url \in Urls : CallSendPendingData(Monitor, url)
    \/ \E e \in Ctx : SendDataCheck(e)
    \/ \E e \in Ctx : SendAggregatedMark(e)
    \/ SendPendingJoin(Monitor)
    \/ Return(Monitor)

FairSweep ==
    /\ \A e \in Ctx : WF_vars(SendDataCheck(e))
    /\ \A e \in Ctx : WF_vars(SendAggregatedMark(e))
    /\ WF_vars(SendPendingJoin(Monitor))

SpecSweep == Init /\ [][NextSweep]_vars /\ FairSweep

\* The monitor storing aggregates and sweeping them again and again for a
\* server: whenever no call is in progress the next send_pending_data starts,
\* and every thread, the join and the return keep being scheduled
NextRecurring ==
    \/ \E k \in Keys : SaveAggregatedData(Monitor, k)
    \/ \E url \in Urls \ {""} : CallSendPendingData(Monitor, url)
    \/ \E e \in Ctx : SendDataCheck(e)
    \/ \E e \in Ctx : SendAggregatedMark(e)
    \/ SendPendingJoin(Monitor)
    \/ Return(Monitor)

FairRecurring ==
    /\ FairSweep
    /\ WF_vars(\E url \in Urls \ {""} : CallSendPendingData(Monitor, url))
    /\ WF_vars(Return(Monitor))

SpecRecurring == Init /\ [][NextRecurring]_vars /\ FairRecurring

\* The monitor storing samples and aggregates over a year, marking aggregates
\* sent (offline) and running the retention sweep
NextRetention ==
    \/ SaveCollection(Monitor, EmptyPayload)
    \/ \E k \in Keys : SaveAggregatedData(Monitor, k)
    \/ \E k \in Keys, id \in 1 .. MaxRows : CallSendAggregatedData(Monitor, k, id, "")
    \/ SendDataCheck(MainOf(Monitor))
    \/ SendAggregatedMark(MainOf(Monitor))
    \/ CleanupOldData(Monitor)
    \/ \E t \in Instants : Advance(t)
    \/ Return(Monitor)

SpecRetention == Init /\ [][NextRetention]_vars

\* The instants of the wall clock while samples are stored and read
SampleInstants == {Now0 - 1, Now0, Now0 + 1}

\* datetime.datetime.now() is the wall clock, which is set forward or back
SetClock(t) ==
    /\ t # now
    /\ \A e \in Ctx : call[e].pc = "idle"
    /\ now' = t
    /\ UNCHANGED <<audit_vars, report, sample_vars, aggregated_data, agg_seq, send_attempts, posts, call>>

\* A payload with one reading
OneReading ==
    [gpus |-> <<[device_id |-> "GPU-1234", name |-> "RTX 3080",
                 metrics |-> [f \in Fields |->
                     IF f = "memory_used_mb" THEN 5120 ELSE 82]]>>]

\* The payloads of the stored samples: no device, one reading, two readings
SamplePayloads ==
    {EmptyPayload,
     OneReading,
     [gpus |-> <<[device_id |-> "GPU-5678", name |-> "RTX 3090",
                  metrics |-> [f \in {"memory_used_mb"} |-> 75]],
                 [device_id |-> "GPU-1234", name |-> "RTX 3080 Ti",
                  metrics |-> [f \in {"sm_utilization_percent"} |-> 82]]>>]}

\* Samples stored and read back over any interval
NextSamples ==
    \/ \E data \in SamplePayloads : SaveCollection(Monitor, data)
    \/ \E t \in SampleInstants : SetClock(t)
    \/ \E start_time, end_time \in SampleInstants :
          GetCollectionsForAggregation(Monitor, start_time, end_time)

SpecSamples == InitEmpty /\ [][NextSamples]_vars

\* The monitor process from its start to its exit
NextMain ==
    \/ \E platform \in Platforms : StartMain(platform)
    \/ \E ok \in BOOLEAN : InitializeNvml(ok)
    \/ \E ok \in BOOLEAN : GetGpuInfo(ok)
    \/ \E data \in SamplePayloads, ok \in BOOLEAN : SaveInLoop(data, ok)
    \/ LogFailure
    \/ \E t \in {now, now + 1} : Sleep(t)
    \/ Interrupt
    \/ LogShuttingDown
    \/ InterruptAgain
    \/ \E ok \in BOOLEAN : ShutdownNvml(ok)
    \/ CloseDb
    \/ LogComplete
    \/ \E del_runs \in BOOLEAN : ProcessExit(del_runs)

SpecMain == InitEmpty /\ [][NextMain]_vars

\* Samples stored, deliveries made through a client that transmits, and runs
\* of main() with a reporting command in between
NextReport ==
    \/ SaveCollection(Monitor, OneReading)
    \/ \E k \in Keys : SaveAggregatedData(Monitor, k)
    \/ \E k \in Keys, url \in Urls \ {""} : CallSendData(Monitor, url, "false", k)
    \/ SendDataCheck(MainOf(Monitor))
    \/ \E r \in DeliveryResponses, j \in JsonErrorKinds : SendDataPost(MainOf(Monitor), r, j)
    \/ RecordRead(MainOf(Monitor))
    \/ RecordInsert(MainOf(Monitor))
    \/ Return(Monitor)
    \/ ListSends
    \/ \E k \in Keys : SearchSend(k)
    \/ \E timestamp \in {NullInt, Now0} : ShowCollection(timestamp)
    \/ \E del_runs \in BOOLEAN : ProcessExit(del_runs)

SpecReport == Init /\ [][NextReport]_vars

\* The days the ledger is looked at again: the day after the samples of the
\* start pass the raw cutoff, and the day after the older key passes the
\* aggregate cutoff
LedgerInstants == {Now0 + RawRetentionDays + 1, 10 + AggRetentionDays + 1}

\* The server's answers while the ledger is written: a failure status and an
\* acknowledgment that echoes the payload
LedgerResponses ==
    {r \in Responses :
        \/ r.status = 500 /\ r.body = "none"
        \/ r.status = 200 /\ r.uid # NULL /\ r.params = "echo"}

\* The monitor writing all three tables over a year: samples and aggregates
\* are stored, aggregates are delivered and marked, attempts are recorded,
\* the retention sweep runs, and the reporting commands read
NextLedger ==
    \/ SaveCollection(Monitor, OneReading)
    \/ \E k \in Keys : SaveAggregatedData(Monitor, k)
    \/ \E k \in Keys, url \in Urls \ {""} : CallSendData(Monitor, url, "false", k)
    \/ \E k \in Keys, id \in 1 .. MaxRows, url \in Urls \ {""} :
          CallSendAggregatedData(Monitor, k, id, url)
    \/ SendDataCheck(MainOf(Monitor))
    \/ \E r \in LedgerResponses, j \in JsonErrorKinds : SendDataPost(MainOf(Monitor), r, j)
    \/ RecordRead(MainOf(Monitor))
    \/ RecordInsert(MainOf(Monitor))
    \/ SendAggregatedMark(MainOf(Monitor))
    \/ \E data_id \in 1 .. MaxRows, a \in MarkArgs :
          CallMarkAggregatedDataSent(Monitor, data_id, a)
    \/ CleanupOldData(Monitor)
    \/ \E t \in LedgerInstants : Advance(t)
    \/ Return(Monitor)

SpecLedger == Init /\ [][NextLedger]_vars

\* The sample table over a year: samples are stored, aggregates are stored
\* and marked, the retention sweep runs, and the reporting commands read
NextSampleLedger ==
    \/ SaveCollection(Monitor, OneReading)
    \/ \E k \in Keys : SaveAggregatedData(Monitor, k)
    \/ \E data_id \in 1 .. MaxRows, a \in MarkArgs :
          CallMarkAggregatedDataSent(Monitor, data_id, a)
    \/ CleanupOldData(Monitor)
    \/ \E t \in LedgerInstants : Advance(t)
    \/ Return(Monitor)
    \/ ListSends
    \/ \E k \in Keys : SearchSend(k)
    \/ \E timestamp \in {NullInt, Now0} : ShowCollection(timestamp)
    \/ \E del_runs \in BOOLEAN : ProcessExit(del_runs)

SpecSampleLedger == Init /\ [][NextSampleLedger]_vars

\* aggregate_gpu_data applied to the collections of any window
InitAgg ==
    /\ InitStore
    /\ \A k \in Keys : send_attempts[k] = <<>>
    /\ gpu_window \in Windows
    /\ gpu_summary = NotRun

NextAgg == AggregateGpuData

SpecAgg == InitAgg /\ [][NextAgg]_vars

-----------------------------------------------------------------------------
(* Properties *)

\* A send_data call as TestServerClient makes it: the client has a URL and
\* was built without the offline argument or with offline=False
UrlClient(c) == c.url # "" /\ c.offline_arg # "true"

\* The rows of aggregated_data with id = id
RowsWithId(id) == {i \in DOMAIN aggregated_data : aggregated_data[i].id = id}

\* The aggregate id is in the result of get_unsent_aggregated_data
InUnsent(id) ==
    \E j \in DOMAIN get_unsent_aggregated_data : get_unsent_aggregated_data[j].id = id

\* C1: when send_pending_data, called with a non-empty URL, has returned,
\* every aggregate it selected that had fewer than MaxRetries attempts was
\* transmitted once and got exactly one new attempt row.
C1_BatchTransmitsOnce ==
    \A p \in Procs :
        LET m == call[MainOf(p)] IN
        (m.kind = "send_pending_data" /\ m.pc = "done" /\ m.url # "") =>
            \A e \in ThreadsOf(p) :
                ~call[e].at_ceiling => call[e].posted = 1 /\ call[e].wrote = 1

\* C2: after any number of sequential record_send_attempt calls, the i-th
\* attempt row of every key carries the number i, whatever the other keys hold.
C2_SequentialNumbers ==
    \A k \in Keys : \A i \in DOMAIN send_attempts[k] :
        send_attempts[k][i].attempt_number = i

C2_Witness ==
    \E k \in Keys : \E k2 \in Keys \ {k} :
        /\ Len(send_attempts[k]) >= 2
        /\ Len(send_attempts[k2]) >= 1
        /\ send_attempts[k2][1].timestamp = now
        /\ AllIdle

\* C3: no two attempt rows of one key carry the same attempt number, also
\* when two calls of record_send_attempt for the key overlap.
C3_NoDuplicateNumbers ==
    \A k \in Keys : \A i, j \in DOMAIN send_attempts[k] :
        i # j => send_attempts[k][i].attempt_number # send_attempts[k][j].attempt_number

\* C4: a send_data call for a key that had MaxRetries attempts when it was
\* made, on a client with a URL, returns (False, "Maximum retry attempts (10)
\* reached") without a request and without a new attempt row.
C4_CeilingRefuses ==
    \A e \in Ctx :
        LET c == call[e] IN
        (c.kind = "send_data" /\ UrlClient(c) /\ c.at_ceiling /\ Finished(c)) =>
            /\ c.pc = "returned"
            /\ ~c.success
            /\ c.error = ErrMaxRetries
            /\ c.posted = 0
            /\ c.wrote = 0

\* C5: no key ever has more than MaxRetries attempt rows, also with several
\* send_data calls for the key in progress at once.
C5_AtMostCeiling ==
    \A k \in Keys : Len(send_attempts[k]) <= MaxRetries

\* C6: a delivery through a client without URL or with the offline flag
\* returns (True, None), sends no request and writes no attempt row,
\* whatever attempts the key already has.
C6_OfflineSilent ==
    \A e \in Ctx :
        LET c == call[e] IN
        (c.kind \in {"send_data", "send_aggregated_data"}
            /\ (c.url = "" \/ c.offline) /\ c.pc # "check") =>
            /\ c.success
            /\ c.error = NULL
            /\ c.posted = 0
            /\ c.wrote = 0
            /\ c.raised \in {NULL, "ProgrammingError"}

C6_Witness ==
    \E e \in Ctx :
        /\ call[e].kind = "send_data"
        /\ call[e].pc = "returned"
        /\ call[e].url # ""
        /\ call[e].offline_arg = "true"
        /\ call[e].at_ceiling
        /\ Len(send_attempts[call[e].key]) = MaxRetries

C8_DeliveredTerminal ==
    [][\A i \in DOMAIN aggregated_data :
          aggregated_data[i].sent = 1 =>
              /\ aggregated_data'[i].sent = 1
              /\ send_attempts'[aggregated_data[i].aggregation_time]
                    = send_attempts[aggregated_data[i].aggregation_time]]_vars

\* C9: a thread that send_pending_data started for a key with MaxRetries
\* attempts sends no request, writes no attempt row and leaves the aggregate
\* unsent.
C9_ExhaustedTerminal ==
    \A e \in Ctx :
        LET c == call[e] IN
        (~IsMain(e) /\ c.pc # "idle" /\ c.at_ceiling) =>
            /\ c.posted = 0
            /\ c.wrote = 0
            /\ \A i \in RowsWithId(c.id) : aggregated_data[i].sent = 0

C9_Witness ==
    \E e \in Ctx :
        /\ ~IsMain(e)
        /\ call[e].at_ceiling
        /\ Finished(call[e])
        /\ call[MainOf(e[1])].pc = "done"
        /\ call[MainOf(e[1])].url # ""
        /\ \E i \in RowsWithId(call[e].id) : aggregated_data[i].sent = 0

\* C10: no key ever has two attempt rows with success = true.
C10_AtMostOneSuccess ==
    \A k \in Keys :
        Cardinality({i \in DOMAIN send_attempts[k] : send_attempts[k][i].success}) <= 1

\* The response send_data accepts: status 200, a JSON object with a uid, and
\* no params or params equal to the payload
Accepted(r) ==
    /\ ~r.exc
    /\ r.status = 200
    /\ r.body = "object"
    /\ r.uid # NULL
    /\ r.params \in {"absent", "echo"}

\* The newest attempt row of key k
LastRow(k) == send_attempts[k][Len(send_attempts[k])]

\* A send_data call that was not short-circuited, has sent its request and
\* has ended
Delivered(c) ==
    /\ c.kind = "send_data"
    /\ Online(c)
    /\ ~c.at_ceiling
    /\ Finished(c)

\* C11: a send_data call that is not short-circuited returns success exactly
\* when the response is accepted (200, object, uid, params absent or equal to
\* the payload) and failure for every other outcome, and the one attempt row
\* it wrote has the returned result as its success flag.
C11_SuccessIffAccepted ==
    \A e \in Ctx :
        LET c == call[e] IN
        Delivered(c) =>
            /\ c.pc = "returned"
            /\ c.posted = 1
            /\ c.success <=> Accepted(c.response)
            /\ c.wrote = 1
            /\ LastRow(c.key).success = c.success

\* C12: for every outcome of the transmission that is not accepted, send_data
\* raises nothing, returns (False, error) and has written exactly one failed
\* attempt row; a body that is not JSON gives the error "Server response is
\* not a valid JSON object".
C12_FailuresRecordedNotRaised ==
    \A e \in Ctx :
        LET c == call[e] IN
        (Delivered(c) /\ ~Accepted(c.response)) =>
            /\ c.raised = NULL
            /\ ~c.success
            /\ c.error # NULL
            /\ c.wrote = 1
            /\ ~LastRow(c.key).success
            /\ c.response.body = "unparsable" => c.error = ErrNotObject

\* C13 as claimed: every attempt row with a uid has success = true.
C13_UidOnlyOnSuccess ==
    \A k \in Keys : \A i \in DOMAIN send_attempts[k] :
        send_attempts[k][i].uid # NULL => send_attempts[k][i].success

\* C13: every attempt row send_data wrote with a uid is a success or the
\* failure of the integrity check (error "Server response data does not match
\* sent data").
C13_UidOnSuccessOrMismatch ==
    \A k \in Keys : \A i \in DOMAIN send_attempts[k] :
        send_attempts[k][i].uid # NULL =>
            \/ send_attempts[k][i].success
            \/ send_attempts[k][i].error = ErrMismatch

C13_Witness ==
    \E k \in Keys : \E i, j \in DOMAIN send_attempts[k] :
        /\ send_attempts[k][i].uid # NULL
        /\ ~send_attempts[k][i].success
        /\ send_attempts[k][j].uid # NULL
        /\ send_attempts[k][j].success

\* C14: when the response is 200 with an object that has a uid and params
\* different from the payload, send_data returns (False, "Server response
\* data does not match sent data") and the attempt row it wrote is a failure
\* with the uid of the response.
C14_MismatchKeepsUid ==
    \A e \in Ctx :
        LET c == call[e] IN
        (Delivered(c) /\ c.response.status = 200 /\ c.response.body = "object"
            /\ c.response.uid # NULL /\ c.response.params = "other") =>
            /\ c.pc = "returned"
            /\ ~c.success
            /\ c.error = ErrMismatch
            /\ c.wrote = 1
            /\ ~LastRow(c.key).success
            /\ LastRow(c.key).error = ErrMismatch
            /\ LastRow(c.key).uid = c.response.uid

C14_Witness ==
    \E e \in Ctx :
        /\ Delivered(call[e])
        /\ call[e].response.params = "other"
        /\ call[e].response.uid \in Uids
        /\ call[e].response.status = 200
        /\ LastRow(call[e].key).uid \in Uids

\* A call of send_pending_data by process p is in progress or has just ended
Sweeping(p) ==
    /\ call[MainOf(p)].kind = "send_pending_data"
    /\ call[MainOf(p)].pc \in {"join", "done"}

SweepJoined(p) ==
    Sweeping(p) =>
        /\ Cardinality(ThreadsOf(p)) = call[MainOf(p)].launched
        /\ call[MainOf(p)].launched = Len(get_unsent_aggregated_data)
        /\ \A e \in ThreadsOf(p) : InUnsent(call[e].id)
        /\ \A j \in DOMAIN get_unsent_aggregated_data :
              \E e \in ThreadsOf(p) : call[e].id = get_unsent_aggregated_data[j].id
        /\ call[MainOf(p)].pc = "done" => \A e \in ThreadsOf(p) : Finished(call[e])

\* C16: send_pending_data starts one thread per aggregate of its one read of
\* the unsent aggregates, is done only after all of them have ended, and,
\* its threads being scheduled, a call that was started does end.
C16_SweepJoinsAndEnds ==
    /\ [](\A p \in Procs : SweepJoined(p))
    /\ \A p \in Procs :
          (call[MainOf(p)].pc = "join") ~> (call[MainOf(p)].pc = "done")

C16_Witness ==
    \E p \in Procs :
        /\ call[MainOf(p)].kind = "send_pending_data"
        /\ call[MainOf(p)].pc = "done"
        /\ call[MainOf(p)].launched = 2
        /\ call[MainOf(p)].url # ""
        /\ \A e \in ThreadsOf(p) : Finished(call[e])

\* The step is a whole call of cleanup_old_data by process p
IsCleanup(p) ==
    /\ call[MainOf(p)].pc = "idle"
    /\ call'[MainOf(p)].kind = "cleanup_old_data"

\* The ids of the rows of a table
IdsOf(s) == {s[i].id : i \in DOMAIN s}

\* C17: a call of cleanup_old_data removes exactly the samples whose
\* timestamp is strictly before now - 30 days and exactly the aggregates
\* whose key is strictly before now - 365 days, and changes no other row.
C17_SweepDeletesExactlyOld ==
    [][\A p \in Procs : IsCleanup(p) =>
          /\ \A i \in DOMAIN collections :
                (collections[i].id \in IdsOf(collections'))
                    <=> (collections[i].timestamp >= now - RawRetentionDays)
          /\ \A i \in DOMAIN aggregated_data :
                (aggregated_data[i].id \in IdsOf(aggregated_data'))
                    <=> (aggregated_data[i].aggregation_time >= now - AggRetentionDays)
          /\ \A j \in DOMAIN collections' :
                \E i \in DOMAIN collections : collections[i] = collections'[j]
          /\ \A j \in DOMAIN aggregated_data' :
                \E i \in DOMAIN aggregated_data : aggregated_data[i] = aggregated_data'[j]
      ]_vars

C17_Witness ==
    /\ call[MainOf(Monitor)].kind = "cleanup_old_data"
    /\ Len(collections) >= 1
    /\ col_seq > Len(collections)
    /\ \E i \in DOMAIN collections : collections[i].timestamp < now
    /\ Len(aggregated_data) >= 1
    /\ agg_seq > Len(aggregated_data)

\* C18: a call of cleanup_old_data leaves no aggregate and no attempt row
\* with a key strictly before now - 365 days, whether the aggregate was sent
\* or not, and leaves the attempt rows of every other key as they were.
C18_AttemptsGoWithAggregates ==
    [][\A p \in Procs : IsCleanup(p) =>
          \A k \in Keys :
              IF k < now - AggRetentionDays
              THEN /\ send_attempts'[k] = <<>>
                   /\ \A j \in DOMAIN aggregated_data' :
                         aggregated_data'[j].aggregation_time # k
              ELSE send_attempts'[k] = send_attempts[k]
      ]_vars

C18_Witness ==
    /\ call[MainOf(Monitor)].kind = "cleanup_old_data"
    /\ \E k1, k2 \in Keys :
          /\ k1 < now - AggRetentionDays
          /\ k2 = now - AggRetentionDays
          /\ send_attempts[k1] = <<>>
          /\ Len(send_attempts[k2]) = MaxRetries
          /\ \E i \in DOMAIN aggregated_data :
                aggregated_data[i].aggregation_time = k2 /\ aggregated_data[i].sent = 1
    /\ agg_seq > Len(aggregated_data)

\* The readings of device d in the window that have metric f: their places
\* <<collection, reading>>
Present(d, f) ==
    {x \in (DOMAIN gpu_window) \X (1 .. 2) :
        /\ x[2] \in DOMAIN gpu_window[x[1]]
        /\ gpu_window[x[1]][x[2]].device_id = d
        /\ f \in DOMAIN gpu_window[x[1]][x[2]].metrics}

ValueAt(x, f) == gpu_window[x[1]][x[2]].metrics[f]

RECURSIVE SumAt(_, _)
SumAt(X, f) ==
    IF X = {} THEN 0
    ELSE LET x == CHOOSE y \in X : TRUE IN ValueAt(x, f) + SumAt(X \ {x}, f)

\* st is the mean, minimum and maximum of the values of f in the readings X
StatsOver(st, X, f) ==
    /\ st.mean[1] * Cardinality(X) = SumAt(X, f) * st.mean[2]
    /\ \E x \in X : ValueAt(x, f) = st.min
    /\ \A x \in X : ValueAt(x, f) >= st.min
    /\ \E x \in X : ValueAt(x, f) = st.max
    /\ \A x \in X : ValueAt(x, f) <= st.max

\* C19: for every device entry and every field it aggregates, _mean is the
\* arithmetic mean of exactly the values the device's readings of the window
\* have for the field, and _min / _max are their minimum / maximum.
C19_StatsOfPresentValues ==
    gpu_summary.ran =>
        \A j \in DOMAIN gpu_summary.out :
            LET g == gpu_summary.out[j] IN
            \A f \in DOMAIN g.stats :
                /\ Present(g.device_id, f) # {}
                /\ StatsOver(g.stats[f], Present(g.device_id, f), f)

C19_Witness ==
    /\ gpu_summary.ran
    /\ \E j \in DOMAIN gpu_summary.out :
          LET g == gpu_summary.out[j] IN
          /\ "memory_used_mb" \in DOMAIN g.stats
          /\ g.stats["memory_used_mb"] = [mean |-> <<5632, 1>>, min |-> 5120, max |-> 6144]
          /\ "sm_utilization_percent" \in DOMAIN g.stats
          /\ Cardinality(Present(g.device_id, "sm_utilization_percent")) = 1

\* C20: a field that only some readings of a device have, whichever reading
\* comes first, is aggregated over exactly the readings that have it, and a
\* field is missing from the device's entry only if no reading of the device
\* has it.
C20_PartialFieldsAggregated ==
    gpu_summary.ran =>
        \A j \in DOMAIN gpu_summary.out :
            LET g == gpu_summary.out[j] IN
            \A f \in Fields :
                IF Present(g.device_id, f) = {}
                THEN f \notin DOMAIN g.stats
                ELSE /\ f \in DOMAIN g.stats
                     /\ StatsOver(g.stats[f], Present(g.device_id, f), f)

\* The orderings of n samples
Orderings(n) == {f \in [1 .. n -> 1 .. n] : \A i, j \in 1 .. n : i # j => f[i] # f[j]}

\* The summarised devices of a result, each with its emitted statistics
StatsByDevice(out) == {<<out[j].device_id, out[j].stats>> : j \in DOMAIN out}

\* C21: for every ordering of the samples of the window, aggregate_gpu_data
\* summarises the same devices with the same _mean/_min/_max fields and
\* values as for the window as given.
C21_OrderOnlyChangesName ==
    gpu_summary.ran =>
        \A f \in Orderings(Len(gpu_window)) :
            StatsByDevice(aggregate_gpu_data([i \in 1 .. Len(gpu_window) |-> gpu_window[f[i]]]))
                = StatsByDevice(gpu_summary.out)

\* The places <<collection, reading>> of the readings of device d
PlacesOf(d) ==
    {x \in (DOMAIN gpu_window) \X (1 .. 2) :
        /\ x[2] \in DOMAIN gpu_window[x[1]]
        /\ gpu_window[x[1]][x[2]].device_id = d}

\* Place x is not after place y in input order
NotAfter(x, y) == x[1] < y[1] \/ (x[1] = y[1] /\ x[2] <= y[2])

\* The last reading of device d in input order
LastReadingOf(d) ==
    LET x == CHOOSE y \in PlacesOf(d) : \A z \in PlacesOf(d) : NotAfter(z, y)
    IN  gpu_window[x[1]][x[2]]

\* C22: the result has exactly one entry per device id of the input, an
\* entry's statistics are those of values of that device's own readings, and
\* its name is the name of the device's last reading in input order.
C22_GroupedByDevice ==
    gpu_summary.ran =>
        /\ \A d \in Devices :
              Cardinality({j \in DOMAIN gpu_summary.out : gpu_summary.out[j].device_id = d})
                  = IF PlacesOf(d) = {} THEN 0 ELSE 1
        /\ \A j \in DOMAIN gpu_summary.out :
              LET g == gpu_summary.out[j] IN
              /\ g.device_id \in Devices
              /\ g.name = LastReadingOf(g.device_id).name
              /\ \A f \in DOMAIN g.stats :
                    /\ g.stats[f].min \in ValuesOfField(g.device_id, f)
                    /\ g.stats[f].max \in ValuesOfField(g.device_id, f)
                    /\ g.stats[f].mean[1] * Cardinality(Present(g.device_id, f))
                          = SumAt(Present(g.device_id, f), f) * g.stats[f].mean[2]

C22_Witness ==
    /\ gpu_summary.ran
    /\ Len(gpu_summary.out) = 2
    /\ \E j \in DOMAIN gpu_summary.out :
          /\ gpu_summary.out[j].device_id = "GPU-1234"
          /\ Cardinality(PlacesOf("GPU-1234")) = 2
          /\ gpu_summary.out[j].name = "RTX 3080 Ti"
          /\ \E x \in PlacesOf("GPU-1234") : gpu_window[x[1]][x[2]].name = "RTX 3080"
          /\ "memory_used_mb" \in DOMAIN gpu_summary.out[j].stats
    /\ \E j \in DOMAIN gpu_summary.out :
          /\ gpu_summary.out[j].device_id = "GPU-5678"
          /\ "memory_used_mb" \in DOMAIN gpu_summary.out[j].stats

\* C23: for an empty list of samples, and for a list of samples without
\* readings, the result is the empty list.
C23_EmptyGivesEmpty ==
    (gpu_summary.ran /\ \A i \in DOMAIN gpu_window : gpu_window[i] = <<>>) =>
        gpu_summary.out = <<>>

C23_Witness ==
    /\ gpu_summary.ran
    /\ Len(gpu_window) = 2
    /\ \A i \in DOMAIN gpu_window : gpu_window[i] = <<>>
    /\ gpu_summary.out = <<>>

\* The places of collections whose timestamp is in [lo, hi]
InInterval(lo, hi) ==
    {i \in DOMAIN collections :
        lo <= collections[i].timestamp /\ collections[i].timestamp <= hi}

\* The row of collections with id = id
SampleWithId(id) ==
    collections[CHOOSE i \in DOMAIN collections : collections[i].id = id]

\* C24: get_collections_for_aggregation(start, end) returns exactly the
\* stored samples whose timestamp lies in the closed interval [start, end],
\* each once, in ascending timestamp order, each with the payload that was
\* passed to save_collection; it returns the empty list when no sample lies
\* in the interval.
C24_LoadsIntervalInOrder ==
    [][loaded' # loaded =>
        LET I == InInterval(loaded'.start_time, loaded'.end_time)
            ids == loaded'.ids
            out == loaded'.out
        IN  /\ loaded'.ran
            /\ Len(out) = Cardinality(I)
            /\ Len(ids) = Len(out)
            /\ {ids[j] : j \in DOMAIN ids} = {collections[i].id : i \in I}
            /\ \A j, k \in DOMAIN ids :
                  j < k => SampleWithId(ids[j]).timestamp <= SampleWithId(ids[k]).timestamp
            /\ \A j \in DOMAIN out : out[j] = SampleWithId(ids[j]).given
            /\ (I = {} => out = <<>>)]_vars

\* A read that returned two samples in the order opposite to the one they
\* were stored in, their timestamps being the two ends of the interval
C24_Witness ==
    /\ loaded.ran
    /\ loaded.ids = <<2, 1>>
    /\ Len(collections) = 2
    /\ collections[2].timestamp = loaded.start_time
    /\ collections[1].timestamp = loaded.end_time
    /\ collections[2].timestamp < collections[1].timestamp
    /\ loaded.out[1] # EmptyPayload
    /\ loaded.out[1] = collections[2].given
    /\ loaded.out[2] # loaded.out[1]

\* C25: a failed capture or a failed sample write goes to the handler of the
\* loop, which logs; then the loop sleeps and runs the next cycle.  The loop
\* is left only by an interrupt, and it is entered only from a telemetry
\* initialization that did not fail.
C25_LoopSurvivesFailures ==
    /\ [](monitor.init_failed => ~monitor.entered /\ monitor.pc \notin LoopPcs)
    /\ [][LET from == monitor.pc
               to == monitor'.pc
           IN  /\ (from \in LoopPcs /\ to \notin LoopPcs) => to = "interrupted"
               /\ (from \in {"collect", "save"} /\ to \in LoopPcs) =>
                     \/ to = "handler" /\ monitor'.failures = monitor.failures + 1
                     \/ to \in {"save", "sleep"} /\ monitor'.failures = monitor.failures
               /\ (from = "handler" /\ to \in LoopPcs) => to = "sleep"
               /\ (from = "sleep" /\ to \in LoopPcs) =>
                     to = "collect" /\ monitor'.cycles = monitor.cycles + 1
               /\ (from \notin LoopPcs /\ to \in LoopPcs) =>
                     from = "init_nvml" /\ ~monitor'.init_failed]_vars

\* After a failed sample write and a failed capture the loop ran another
\* cycle
C25_Witness ==
    /\ monitor.pc = "collect"
    /\ monitor.cycles = MaxCycles
    /\ monitor.failures = MaxCycles - 1
    /\ monitor.nvml = "initialized"
    /\ collections = <<>>
    /\ ~monitor.interrupted

\* C26: when the process has exited after an interrupt ended the collection
\* loop (one interrupt, none during the shutdown sequence), the NVML handle
\* was released and the connection was closed.
C26_InterruptReleasesAll ==
    (monitor.pc = "exited" /\ monitor.interrupted /\ monitor.raised # "KeyboardInterrupt")
        => (monitor.nvml # "initialized" /\ monitor.conn = "closed")

\* The places of aggregated_data whose row is unsent and has a key later
\* than now minus 30 days
RecentUnsent ==
    {i \in DOMAIN aggregated_data :
        /\ aggregated_data[i].sent = 0
        /\ aggregated_data[i].aggregation_time > now - UnsentWindowDays}

PendingAggregate(id) ==
    \E i \in RowsWithId(id) :
        /\ aggregated_data[i].sent = 0
        /\ get_send_attempts_len(aggregated_data[i].aggregation_time) < MaxRetries
        /\ aggregated_data[i].aggregation_time > now - UnsentWindowDays

\* The aggregate id is sent, or its key has MaxRetries attempts
TerminalAggregate(id) ==
    \E i \in RowsWithId(id) :
        \/ aggregated_data[i].sent = 1
        \/ get_send_attempts_len(aggregated_data[i].aggregation_time) >= MaxRetries

\* C28: under recurring sweeps for a server, an aggregate that is stored,
\* unsent, below the ceiling and inside the 30-day window is eventually
\* marked sent or reaches the ceiling of attempts.
C28_PendingBecomesTerminal ==
    \A id \in 1 .. MaxRows : PendingAggregate(id) ~> TerminalAggregate(id)

\* The aggregates of keys that have MaxRetries attempts
ExhaustedRows ==
    {i \in DOMAIN aggregated_data :
        get_send_attempts_len(aggregated_data[i].aggregation_time) >= MaxRetries}

C30_SuccessRowWithSentFlag ==
    \A i \in DOMAIN aggregated_data :
        LET a == AttemptsOf(aggregated_data[i].aggregation_time) IN
        (\E j \in DOMAIN a : a[j].success) => aggregated_data[i].sent = 1

\* The attempt log has a row of key k with success = true and a uid
Acknowledged(k) ==
    \E j \in DOMAIN send_attempts[k] :
        send_attempts[k][j].success /\ send_attempts[k][j].uid # NULL

\* C31: when a send_aggregated_data call made with a non-empty server URL
\* (directly or by send_pending_data) sets an aggregate's sent flag, the
\* attempt log holds a row of the aggregate's key with success = true and a
\* non-null uid.
C31_SentMeansAcknowledged ==
    [][\A e \in Ctx : \A i \in DOMAIN aggregated_data :
          (/\ call[e].kind = "send_aggregated_data"
           /\ call[e].url # ""
           /\ call[e].pc = "returned"
           /\ call'[e].pc = "done"
           /\ call[e].id = aggregated_data[i].id
           /\ aggregated_data'[i].sent = 1)
          => Acknowledged(aggregated_data[i].aggregation_time)']_vars

\* A step that is a run of main() with a reporting command
ReportStep == monitor.pc \in {"off", "exited"} /\ monitor'.pc = "unwound"

\* sm is the delivery summary of its key as the claim describes it
SummaryAsClaimed(sm) ==
    LET a == send_attempts[sm.aggregation_time]
        F == {j \in DOMAIN a : ~a[j].success}
        S == {j \in DOMAIN a : a[j].success}
    IN  /\ a # <<>>
        /\ sm.attempts = Len(a)
        /\ \E j \in DOMAIN a : a[j].timestamp = sm.first_attempt
        /\ \A j \in DOMAIN a : a[j].timestamp >= sm.first_attempt
        /\ \E j \in DOMAIN a : a[j].timestamp = sm.last_attempt
        /\ \A j \in DOMAIN a : a[j].timestamp <= sm.last_attempt
        /\ IF F = {} THEN sm.last_error = NULL
           ELSE \E j \in F : /\ \A i \in F : a[i].timestamp <= a[j].timestamp
                              /\ sm.last_error = a[j].error
        /\ IF S = {} THEN sm.uid = NULL
           ELSE \E j \in S : sm.uid = a[j].uid
        /\ sm.sent = (IF S = {} THEN 0 ELSE 1)

\* C36: what --list-sends and --search-send read is, per aggregation key with
\* attempts, the number of its attempt rows, its earliest and latest attempt
\* time, the error of its most recent failed attempt, the uid of a successful
\* attempt and sent = 1 exactly when it has a successful attempt; a key
\* without attempts has no summary.
C36_SummaryOfAttempts ==
    [][ReportStep =>
        LET out == report'.out IN
        /\ report'.command = "list_sends" =>
              /\ \A i \in DOMAIN out : SummaryAsClaimed(out[i])
              /\ Len(out) = Cardinality({k \in Keys : send_attempts[k] # <<>>})
              /\ \A k \in Keys : send_attempts[k] # <<>> =>
                    \E i \in DOMAIN out : out[i].aggregation_time = k
        /\ report'.command = "search_send" =>
              IF send_attempts[report'.arg] = <<>> THEN out = <<>>
              ELSE /\ Len(out) = 1
                   /\ out[1].aggregation_time = report'.arg
                   /\ SummaryAsClaimed(out[1])]_vars

\* C39: a run of main() with --list-sends, --search-send or --show-collection
\* leaves the collections, aggregated_data and send_attempts tables as they
\* are, starts no call of the delivery engine, sends no request, and returns
\* before NVML is initialised and before the collection loop is entered.
C39_ReportsReadOnly ==
    [][(NoRun /\ ~NoRun') =>
          /\ collections' = collections
          /\ aggregated_data' = aggregated_data
          /\ send_attempts' = send_attempts
          /\ call' = call
          /\ posts' = posts
          /\ monitor'.pc = "unwound"
          /\ monitor'.nvml = "none"
          /\ ~monitor'.entered]_vars

\* A reporting command has returned with what it read from non-empty tables
C39_Witness ==
    /\ monitor.pc = "unwound"
    /\ report.command = "show_collection"
    /\ report.out # <<>>
    /\ collections # <<>>
    /\ aggregated_data # <<>>
    /\ \E k \in Keys : send_attempts[k] # <<>>

\* C35: the store never holds two aggregate rows with the same
\* aggregation_time.
C35_OneRowPerKey ==
    \A i, j \in DOMAIN aggregated_data :
        aggregated_data[i].aggregation_time = aggregated_data[j].aggregation_time
            => i = j

\* C38: the entry of a device carries, under its unsuffixed name, every
\* numeric field that all readings of the device have with one and the same
\* value.
C38_ConstantFieldKeptByName ==
    gpu_summary.ran =>
        \A j \in DOMAIN gpu_summary.out : \A f \in Fields :
            LET gpu_list == GpuListOf(Flatten(gpu_window), gpu_summary.out[j].device_id)
            IN  (\A i \in DOMAIN gpu_list :
                    /\ f \in DOMAIN gpu_list[i].metrics
                    /\ gpu_list[i].metrics[f] = gpu_list[1].metrics[f])
                => f \in EntryKeys(gpu_summary.out[j])

\* A step that is a call of cleanup_old_data
CleanupStep ==
    /\ call[MainOf(Monitor)].pc = "idle"
    /\ call'[MainOf(Monitor)].kind = "cleanup_old_data"

\* C32: in every step a collections row that is still stored has the
\* timestamp, payload, sent and error it had, and a row is gone only after a
\* step of cleanup_old_data.
C32_SamplesImmutable ==
    [][/\ \A i \in DOMAIN collections : \A j \in DOMAIN collections' :
             collections'[j].id = collections[i].id => collections'[j] = collections[i]
       /\ (\E i \in DOMAIN collections : \A j \in DOMAIN collections' :
               collections'[j].id # collections[i].id) => CleanupStep]_vars

\* One sample was removed by the sweep, a later one is stored, an aggregate
\* was marked, and a reporting command has shown a sample
C32_Witness ==
    /\ collections # <<>>
    /\ col_seq > Len(collections)
    /\ \E i \in DOMAIN aggregated_data : aggregated_data[i].sent = 1
    /\ report.command = "show_collection"
    /\ report.out # <<>>

\* A step in which mark_aggregated_data_sent(id, ..) runs: in
\* send_aggregated_data after send_data returned, or called directly
MarkStepOf(id) ==
    \E e \in Ctx :
        \/ /\ call[e].kind = "send_aggregated_data"
           /\ call[e].pc = "returned"
           /\ call'[e].pc = "done"
           /\ call[e].id = id
        \/ /\ call[e].pc = "idle"
           /\ call'[e].kind = "mark_aggregated_data_sent"
           /\ call'[e].id = id

\* C33: in every step a stored aggregate keeps its aggregation_time and its
\* payload; its sent or error changes only in a step of
\* mark_aggregated_data_sent with its id; and such a step leaves every other
\* aggregate row, the collections table and the attempt log as they are.
C33_AggregateFrame ==
    [][/\ \A i \in DOMAIN aggregated_data : \A j \in DOMAIN aggregated_data' :
             aggregated_data'[j].id = aggregated_data[i].id =>
                /\ aggregated_data'[j].aggregation_time = aggregated_data[i].aggregation_time
                /\ aggregated_data'[j].data = aggregated_data[i].data
                /\ (\/ aggregated_data'[j].sent # aggregated_data[i].sent
                    \/ aggregated_data'[j].error # aggregated_data[i].error)
                   => MarkStepOf(aggregated_data[i].id)
       /\ \A id \in 1 .. MaxRows : MarkStepOf(id) =>
             /\ collections' = collections
             /\ send_attempts' = send_attempts
             /\ Len(aggregated_data') = Len(aggregated_data)
             /\ \A i \in DOMAIN aggregated_data :
                   aggregated_data[i].id # id => aggregated_data'[i] = aggregated_data[i]]_vars

\* Of two aggregates of one key one was marked failed and the other is as it
\* was saved, while samples and attempt rows are stored
C33_Witness ==
    /\ \E i, j \in DOMAIN aggregated_data :
          /\ i # j
          /\ aggregated_data[i].aggregation_time = aggregated_data[j].aggregation_time
          /\ aggregated_data[i].error = "Test error"
          /\ aggregated_data[j].sent = 0
          /\ aggregated_data[j].error = NULL
    /\ collections # <<>>
    /\ \E k \in Keys : send_attempts[k] # <<>>

\* A step in which record_send_attempt inserts its row for key k
InsertStepOf(k) ==
    \E e \in Ctx : call[e].pc = "insert" /\ call[e].key = k /\ call'[e].pc = "returned"

\* C34: in every step the attempt rows of a key are as they were, or one row
\* was added after them by record_send_attempt, or they were all removed by
\* cleanup_old_data; record_send_attempt adds exactly one row to its key and
\* leaves the rows of the other keys as they are.
C34_AttemptLogAppendOnly ==
    [][\A k \in Keys :
          LET old == send_attempts[k]
              new == send_attempts'[k]
              OneMore == Len(new) = Len(old) + 1 /\ SubSeq(new, 1, Len(old)) = old
          IN  /\ \/ new = old
                 \/ OneMore /\ InsertStepOf(k)
                 \/ new = <<>> /\ CleanupStep
              /\ InsertStepOf(k) =>
                    /\ OneMore
                    /\ \A o \in Keys \ {k} : send_attempts'[o] = send_attempts[o]]_vars

\* The sweep removed the attempt rows of the key past retention; the other
\* key has its rows, one of them recorded in this run after an earlier one
C34_Witness ==
    /\ call[MainOf(Monitor)].kind = "cleanup_old_data"
    /\ send_attempts[10] = <<>>
    /\ Len(send_attempts[39]) >= 2
    /\ send_attempts[39][Len(send_attempts[39])].timestamp >= Now0

\* C37: every stored aggregate with sent = 1 has a NULL error.
C37_SentHasNoError ==
    \A i \in DOMAIN aggregated_data :
        aggregated_data[i].sent = 1 => aggregated_data[i].error = NULL

\* mark_aggregated_data_sent(id, True) has just marked an aggregate sent while
\* another aggregate is marked failed with its error stored
C37_Witness ==
    \E i, j \in DOMAIN aggregated_data :
        /\ aggregated_data[i].sent = 1
        /\ aggregated_data[i].error = NULL
        /\ call[MainOf(Monitor)].kind = "mark_aggregated_data_sent"
        /\ call[MainOf(Monitor)].success
        /\ call[MainOf(Monitor)].id = aggregated_data[i].id
        /\ aggregated_data[j].sent = 0
        /\ aggregated_data[j].error = "Test error"

====
